---- MODULE Spec2Model ----
(***************************************************************************)
(* A model of rusty-man's extraction engine: the Name value type of        *)
(* src/doc.rs and the search index of src/index.rs with its schema         *)
(* adapters (src/index/v1_44.rs, v1_52.rs, v1_69.rs).                      *)
(*                                                                         *)
(* Strings are TLC strings; a byte offset of the Rust code is a 0-based    *)
(* offset here, and the slice s[a..b] is SubSeq(s, a + 1, b).              *)
(***************************************************************************)
EXTENDS Integers, Sequences, FiniteSets, TLC

VARIABLES
    name,     \* the Name value held by the caller (doc.rs, struct Name)
    nop,      \* the last Name operation: its receiver, argument and result
    file,     \* the search index file being loaded: the generator's item lists
              \* (logical), its schema generation (enc) and the adapter structs
              \* serde filled from it (raw); consumed by the conversion
    index,    \* Index.data.crates: package name -> canonical CrateData
    pc,       \* "raw" before the conversion, "loaded" after it, "panicked",
              \* "failed" (the decode reported an error)
    iret,     \* the last Index operation: its arguments and result
    lines,    \* Index::load: the lines of the search index file
    lineno,   \* Index::load: how many lines the loop has read
    json,     \* Index::load: the payload collected so far (Option<String>)
    finished, \* Index::load: the end marker was met
    lret,     \* Index::load: "reading", then the value returned
    page,     \* the HTML document a Parser holds
    sret,     \* the last Parser operation: its arguments and result
    lcall,    \* the last resolve_doc_link call: its arguments and result
    mcall,    \* one run of main: the sources, the keyword, what was read so
              \* far and the outcome
    view,     \* an HtmlView: its document, rendering and focus, and the last
              \* call made on it
    walk      \* one sibling walk of the scraper over the nodes of the page:
              \* the loop's cursor and the places visited so far

nameVars == <<name, nop>>
indexVars == <<file, index, pc, iret>>
loadVars == <<lines, lineno, json, finished, lret>>
scrapeVars == <<page, sret>>
linkVars == <<lcall>>
mainVars == <<mcall>>
viewVars == <<view>>
walkVars == <<walk>>
vars == <<name, nop, file, index, pc, iret, lines, lineno, json, finished, lret,
          page, sret, lcall, mcall, view, walk>>
\* what an operation of one component leaves alone
exceptName == <<indexVars, loadVars, scrapeVars, linkVars, mainVars, viewVars, walkVars>>
exceptIndex == <<nameVars, loadVars, scrapeVars, linkVars, mainVars, viewVars, walkVars>>
exceptLoad == <<nameVars, indexVars, scrapeVars, linkVars, mainVars, viewVars, walkVars>>
exceptScrape == <<nameVars, indexVars, loadVars, linkVars, mainVars, viewVars, walkVars>>
exceptLink == <<nameVars, indexVars, loadVars, scrapeVars, mainVars, viewVars, walkVars>>
exceptMain == <<nameVars, indexVars, loadVars, scrapeVars, linkVars, viewVars, walkVars>>
exceptView == <<nameVars, indexVars, loadVars, scrapeVars, linkVars, mainVars, walkVars>>
exceptWalk == <<nameVars, indexVars, loadVars, linkVars, mainVars, viewVars>>

(***************************************************************************)
(* Bounds of the model.                                                    *)
(***************************************************************************)
MaxNameLen == 7     \* longest string a Name is built from
MaxArgLen == 2      \* longest argument of child / ends_with
MaxItems == 2       \* items of a search index, over all its packages
MaxLines == 3       \* lines of a search index file
MaxChain == 5       \* sibling nodes after a fields / variants heading
MaxChildren == 3    \* child nodes of a container of methods or of impls
MaxIdLen == 5       \* longest id attribute read by get_id_part
MaxParts == 2       \* most '/'-separated parts of a link

(***************************************************************************)
(* Rust values: Option, and the outcome of a call that may panic.          *)
(***************************************************************************)
None == [some |-> FALSE, val |-> "-"]
Some(v) == [some |-> TRUE, val |-> v]
Panic == [ok |-> FALSE, val |-> "panic"]
Ok(v) == [ok |-> TRUE, val |-> v]
\* anyhow::Result: an error with its description
Err(msg) == [ok |-> FALSE, val |-> msg]

\* a component at rest: no file read, no document held, no call made
NoLoadCall == [op |-> "none", ret |-> Ok(None)]
NoPage ==
    [kind |-> "none", group |-> "none", layout |-> "none", chain |-> <<>>,
     content |-> <<>>, top |-> [definition |-> FALSE, description |-> FALSE]]
NoScrapeCall == [op |-> "none", name |-> "", ty |-> "none", ret |-> Ok(<<>>)]
NoLinkCall == [op |-> "none", doc_name |-> "", doc_ty |-> "none", link |-> "",
               parts |-> <<>>, fragment |-> None, ty |-> None, name |-> None,
               ret |-> Ok(<<>>)]
NoMainCall == [pc |-> "none", keyword |-> "", sources |-> <<>>,
               no_search |-> FALSE, search |-> "none", krate |-> 0,
               hit |-> "none", exact |-> "none", trace |-> <<>>,
               ret |-> "none", msg |-> ""]
NoWalk == [op |-> "none", cursor |-> 0, visited |-> <<>>, done |-> FALSE]
NoFocus == [some |-> FALSE, val |-> 0]
NoView == [doc |-> <<>>, rendered |-> NoFocus, focus |-> NoFocus, pc |-> "none",
           op |-> "none", x |-> 0, key |-> "", ret |-> ""]

(***************************************************************************)
(* Strings.                                                                *)
(***************************************************************************)
Alphabet == {"a", ":"}

RECURSIVE Strs(_)
Strs(n) ==
    IF n = 0 THEN {""}
    ELSE LET S == Strs(n - 1) IN S \cup {s \o c : s \in S, c \in Alphabet}

NameStrs == Strs(MaxNameLen)
ArgStrs == Strs(MaxArgLen)

\* &s[a..b]: panics unless a <= b <= len(s)
Slice(s, a, b) ==
    IF 0 <= a /\ a <= b /\ b <= Len(s) THEN Ok(SubSeq(s, a + 1, b)) ELSE Panic

\* str::find: the offset of the first match of pat in s, scanning from the left
RECURSIVE FindFrom(_, _, _)
FindFrom(s, pat, i) ==
    IF i + Len(pat) > Len(s) THEN None
    ELSE IF SubSeq(s, i + 1, i + Len(pat)) = pat THEN Some(i)
    ELSE FindFrom(s, pat, i + 1)

StrFind(s, pat) == FindFrom(s, pat, 0)

\* str::rfind: the offset of the last match of pat in s, scanning from the right
RECURSIVE RFindFrom(_, _, _)
RFindFrom(s, pat, i) ==
    IF i < 0 THEN None
    ELSE IF SubSeq(s, i + 1, i + Len(pat)) = pat THEN Some(i)
    ELSE RFindFrom(s, pat, i - 1)

StrRFind(s, pat) == RFindFrom(s, pat, Len(s) - Len(pat))

\* str::ends_with
StrEndsWith(s, suffix) ==
    /\ Len(suffix) <= Len(s)
    /\ SubSeq(s, Len(s) - Len(suffix) + 1, Len(s)) = suffix

(***************************************************************************)
(* doc.rs: Name.                                                           *)
(***************************************************************************)
\* Name_from with a single ':' taken for the separator
Name_from_single_colon(s) ==
    LET f == StrFind(s, ":")
        l == StrRFind(s, ":")
    IN [s |-> s,
        first_end |-> IF f.some THEN f.val ELSE Len(s),
        last_start |-> IF l.some THEN l.val + 1 ELSE 0]

\* impl From<String> for Name
Name_from(s) ==
    LET f == StrFind(s, "::")
        l == StrRFind(s, "::")
    IN [s |-> s,
        first_end |-> IF f.some THEN f.val ELSE Len(s),
        last_start |-> IF l.some THEN l.val + 2 ELSE 0]

\* Name_is_singleton that takes a name with an empty first segment for one
Name_is_singleton_short(n) == n.last_start <= 2

Name_is_singleton(n) == n.last_start = 0

Name_first(n) == Slice(n.s, 0, n.first_end)

Name_last(n) == Slice(n.s, n.last_start, Len(n.s))

Name_full(n) == Ok(n.s)

\* Name_rest that skips one byte too many
Name_rest_off_by_one(n) ==
    IF n.last_start = 0 THEN Ok(None)
    ELSE LET r == Slice(n.s, n.first_end + 3, Len(n.s))
         IN IF r.ok THEN Ok(Some(r.val)) ELSE Panic

Name_rest(n) ==
    IF Name_is_singleton(n) THEN Ok(None)
    ELSE LET r == Slice(n.s, n.first_end + 2, Len(n.s))
         IN IF r.ok THEN Ok(Some(r.val)) ELSE Panic

Name_rest_or_first(n) ==
    LET r == Name_rest(n)
    IN IF ~r.ok THEN Panic
       ELSE IF r.val.some THEN Ok(r.val.val)
       ELSE Name_first(n)

\* Name_parent that keeps the separator
Name_parent_keeps_separator(n) ==
    IF n.last_start = 0 THEN Ok(None)
    ELSE LET p == Slice(n.s, 0, n.last_start)
         IN IF p.ok THEN Ok(Some(Name_from(p.val))) ELSE Panic

Name_parent(n) ==
    IF Name_is_singleton(n) THEN Ok(None)
    ELSE LET p == Slice(n.s, 0, n.last_start - 2)
         IN IF p.ok THEN Ok(Some(Name_from(p.val))) ELSE Panic

Name_child(n, s) == Ok(Name_from((n.s \o "::") \o s))

\* Name_ends_with as a raw suffix test
Name_ends_with_raw(n, other) == Ok(StrEndsWith(n.s, other.s))

Name_ends_with(n, other) ==
    Ok(n.s = other.s \/ StrEndsWith(n.s, "::" \o other.s))

(***************************************************************************)
(* The operations on a Name, one action each.  The caller keeps the Name   *)
(* a constructor, parent() or child() returned.                            *)
(***************************************************************************)
NoNameCall ==
    [op |-> "idle", self |-> Name_from(""), arg |-> "", ret |-> Ok(Name_from(""))]

CallFrom(s) ==
    /\ name' = Name_from(s)
    /\ nop' = [op |-> "from", self |-> Name_from(s), arg |-> s,
               ret |-> Ok(Name_from(s))]
    /\ UNCHANGED exceptName

CallIsSingleton ==
    /\ nop' = [op |-> "is_singleton", self |-> name, arg |-> "",
               ret |-> Ok(Name_is_singleton(name))]
    /\ UNCHANGED <<name, exceptName>>

CallFirst ==
    /\ nop' = [op |-> "first", self |-> name, arg |-> "", ret |-> Name_first(name)]
    /\ UNCHANGED <<name, exceptName>>

CallLast ==
    /\ nop' = [op |-> "last", self |-> name, arg |-> "", ret |-> Name_last(name)]
    /\ UNCHANGED <<name, exceptName>>

CallFull ==
    /\ nop' = [op |-> "full", self |-> name, arg |-> "", ret |-> Name_full(name)]
    /\ UNCHANGED <<name, exceptName>>

CallRest ==
    /\ nop' = [op |-> "rest", self |-> name, arg |-> "", ret |-> Name_rest(name)]
    /\ UNCHANGED <<name, exceptName>>

CallRestOrFirst ==
    /\ nop' = [op |-> "rest_or_first", self |-> name, arg |-> "",
               ret |-> Name_rest_or_first(name)]
    /\ UNCHANGED <<name, exceptName>>

CallParent ==
    LET r == Name_parent(name)
    IN /\ nop' = [op |-> "parent", self |-> name, arg |-> "", ret |-> r]
       /\ name' = IF r.ok /\ r.val.some THEN r.val.val ELSE name
       /\ UNCHANGED exceptName

CallChild(t) ==
    /\ Len(name.s) + 2 + Len(t) <= MaxNameLen
    /\ LET r == Name_child(name, t)
       IN /\ nop' = [op |-> "child", self |-> name, arg |-> t, ret |-> r]
          /\ name' = IF r.ok THEN r.val ELSE name
    /\ UNCHANGED exceptName

CallEndsWith(t) ==
    /\ nop' = [op |-> "ends_with", self |-> name, arg |-> t,
               ret |-> Name_ends_with(name, Name_from(t))]
    /\ UNCHANGED <<name, exceptName>>

NameNext ==
    \/ \E s \in ArgStrs : CallFrom(s)
    \/ CallIsSingleton
    \/ CallFirst
    \/ CallLast
    \/ CallFull
    \/ CallRest
    \/ CallRestOrFirst
    \/ CallParent
    \/ \E t \in ArgStrs : CallChild(t)
    \/ \E t \in ArgStrs : CallEndsWith(t)

(***************************************************************************)
(* Ordering of strings and of search hits.                                 *)
(***************************************************************************)
\* the characters of the model's strings, in ascending byte order
AsciiOrder == ":BFadfmopqrz"

\* the rank of a one-character string among the bytes above (0 if absent)
CharCode(c) ==
    LET hits == {i \in 1..Len(AsciiOrder) : SubSeq(AsciiOrder, i, i) = c}
    IN IF hits = {} THEN 0 ELSE CHOOSE i \in hits : TRUE

\* impl Ord for str: -1, 0 or 1 by the first differing byte, then by length
RECURSIVE StrCmpFrom(_, _, _)
StrCmpFrom(a, b, i) ==
    IF i > Len(a) /\ i > Len(b) THEN 0
    ELSE IF i > Len(a) THEN -1
    ELSE IF i > Len(b) THEN 1
    ELSE LET ca == CharCode(SubSeq(a, i, i))
             cb == CharCode(SubSeq(b, i, i))
         IN IF ca < cb THEN -1
            ELSE IF ca > cb THEN 1
            ELSE StrCmpFrom(a, b, i + 1)

StrCmp(a, b) == StrCmpFrom(a, b, 1)

\* #[derive(Ord)] for IndexItem: by path, then name, then description
IndexItem_cmp(x, y) ==
    IF StrCmp(x.path, y.path) # 0 THEN StrCmp(x.path, y.path)
    ELSE IF StrCmp(x.name, y.name) # 0 THEN StrCmp(x.name, y.name)
    ELSE StrCmp(x.description, y.description)

\* Vec::sort_unstable: the ascending arrangement of v
RECURSIVE SortUnstable(_)
SortUnstable(v) ==
    IF Len(v) <= 1 THEN v
    ELSE LET rest == SortUnstable(Tail(v))
             x == Head(v)
             k == Cardinality({i \in 1..Len(rest) : IndexItem_cmp(rest[i], x) < 0})
         IN SubSeq(rest, 1, k) \o <<x>> \o SubSeq(rest, k + 1, Len(rest))

\* Dedup left out
Dedup_left_out(v) == v

\* Vec::dedup: drops an element equal to the one before it
RECURSIVE Dedup(_)
Dedup(v) ==
    IF Len(v) <= 1 THEN v
    ELSE LET d == Dedup(SubSeq(v, 1, Len(v) - 1))
             x == v[Len(v)]
         IN IF d[Len(d)] = x THEN d ELSE Append(d, x)

(***************************************************************************)
(* index/v1_44.rs, v1_52.rs, v1_69.rs: the schema adapters.  Canonical     *)
(* CrateData is [items, paths]; an ItemData is [ty, name, path, desc,      *)
(* parent] with ty the item type's number and parent an Option<usize>.     *)
(***************************************************************************)
MinLen(S) == CHOOSE n \in S : \A m \in S : n <= m

\* v1_44: the item tuples are the canonical items
V1_44_from(data) == Ok([items |-> data.i, paths |-> data.p])

\* ParentFromRaw without the decrement
ParentFromRaw_no_decrement(parent) == IF parent = 0 THEN None ELSE Some(parent)

\* the parent of an item of the parallel-array formats
ParentFromRaw(parent) == IF parent = 0 THEN None ELSE Some(parent - 1)

\* v1_52: five parallel arrays, zipped (to the length of the shortest)
V1_52_from(data) ==
    LET n == MinLen({Len(data.t), Len(data.n), Len(data.q), Len(data.d), Len(data.i)})
    IN Ok([items |-> [j \in 1..n |->
                        [ty |-> data.t[j],
                         name |-> data.n[j],
                         path |-> data.q[j],
                         desc |-> data.d[j],
                         parent |-> ParentFromRaw(data.i[j])]],
           paths |-> data.p])

\* the one-character codes of the item types 0..25
TypeCodes == "ABCDEFGHIJKLMNOPQRSTUVWXYZ"

\* ItemType::try_from(char): the item type a code stands for
ItemType_try_from(c) ==
    LET hits == {i \in 1..Len(TypeCodes) : SubSeq(TypeCodes, i, i) = c}
    IN IF hits = {} THEN None ELSE Some((CHOOSE i \in hits : TRUE) - 1)

\* PathMap with the sparse pairs read as 1-based
PathMap_one_based(item_paths) ==
    IF item_paths.kind = "Raw"
    THEN [i \in {j \in 0..(Len(item_paths.v) - 1) : Len(item_paths.v[j + 1]) > 0}
            |-> item_paths.v[i + 1]]
    ELSE [i \in {item_paths.v[j][1] - 1 : j \in 1..Len(item_paths.v)}
            |-> LET js == {j \in 1..Len(item_paths.v) : item_paths.v[j][1] - 1 = i}
                    last == CHOOSE j \in js : \A k \in js : k <= j
                IN item_paths.v[last][2]]

\* v1_69, path_map: item index (0-based) -> path
PathMap(item_paths) ==
    IF item_paths.kind = "Raw"
    THEN [i \in {j \in 0..(Len(item_paths.v) - 1) : Len(item_paths.v[j + 1]) > 0}
            |-> item_paths.v[i + 1]]
    ELSE [i \in {item_paths.v[j][1] : j \in 1..Len(item_paths.v)}
            |-> LET js == {j \in 1..Len(item_paths.v) : item_paths.v[j][1] = i}
                    last == CHOOSE j \in js : \A k \in js : k <= j
                IN item_paths.v[last][2]]

\* v1_69: the types are one string; try_from(c).unwrap() panics on an Err
V1_69_from(data) ==
    LET n == MinLen({Len(data.t), Len(data.n), Len(data.d), Len(data.i)})
        \* zip asks the type iterator first: one more code is mapped when
        \* the type string is longer than the other arrays
        m == IF Len(data.t) > n THEN n + 1 ELSE n
        path_map == PathMap(data.q)
        tys == [j \in 1..m |-> ItemType_try_from(SubSeq(data.t, j, j))]
    IN IF \E j \in 1..m : ~tys[j].some THEN Panic
       ELSE Ok([items |-> [j \in 1..n |->
                            [ty |-> tys[j].val,
                             name |-> data.n[j],
                             path |-> IF (j - 1) \in DOMAIN path_map
                                      THEN path_map[j - 1] ELSE "",
                             desc |-> data.d[j],
                             parent |-> ParentFromRaw(data.i[j])]],
               paths |-> data.p])

\* the adapter of a schema generation
CrateData_from(e, data) ==
    IF e = "v1_44" THEN V1_44_from(data)
    ELSE IF e = "v1_52" THEN V1_52_from(data)
    ELSE V1_69_from(data)

\* the outcome of a decode that fails with a reported error
ReportedError == [ok |-> FALSE, val |-> "error"]

\* the JSON type of an array member of a package object
ArrayShape(v, of) == IF Len(v) = 0 THEN "empty" ELSE of

\* the JSON types of the members of a package object written in generation e
\* ("junk": an object with none of the members of a search index)
JsonShape(e, raw) ==
    IF e = "v1_44"
    THEN [t |-> "absent", n |-> "absent", q |-> "absent", d |-> "absent",
          i |-> ArrayShape(raw.i, "tuples"), p |-> ArrayShape(raw.p, "pairs")]
    ELSE IF e \in {"v1_52", "v1_69_raw", "v1_69_indexed"}
    THEN [t |-> IF e = "v1_52" THEN ArrayShape(raw.t, "numbers") ELSE "string",
          n |-> ArrayShape(raw.n, "strings"),
          q |-> IF e = "v1_52" THEN ArrayShape(raw.q, "strings")
                ELSE ArrayShape(raw.q.v, IF e = "v1_69_raw" THEN "strings" ELSE "pairs"),
          d |-> ArrayShape(raw.d, "strings"),
          i |-> ArrayShape(raw.i, "numbers"),
          p |-> ArrayShape(raw.p, "pairs")]
    ELSE [t |-> "absent", n |-> "absent", q |-> "absent", d |-> "absent",
          i |-> "absent", p |-> "absent"]

\* serde fills v1_44::CrateData: "i" an array of item tuples, "p" of pairs
Matches_v1_44(sh) ==
    /\ sh.i \in {"empty", "tuples"}
    /\ sh.p \in {"empty", "pairs"}

\* serde fills v1_52::CrateData: five parallel arrays and "p"
Matches_v1_52(sh) ==
    /\ sh.t \in {"empty", "numbers"}
    /\ sh.n \in {"empty", "strings"}
    /\ sh.q \in {"empty", "strings"}
    /\ sh.d \in {"empty", "strings"}
    /\ sh.i \in {"empty", "numbers"}
    /\ sh.p \in {"empty", "pairs"}

\* Matches_v1_69 that knows the item paths as plain strings only
Matches_v1_69_raw_only(sh) ==
    /\ sh.t = "string"
    /\ sh.n \in {"empty", "strings"}
    /\ sh.q \in {"empty", "strings"}
    /\ sh.d \in {"empty", "strings"}
    /\ sh.i \in {"empty", "numbers"}
    /\ sh.p \in {"empty", "pairs"}

\* serde fills v1_69::CrateData: "t" a string, "q" ItemPaths::Raw or Indexed
Matches_v1_69(sh) ==
    /\ sh.t = "string"
    /\ sh.n \in {"empty", "strings"}
    /\ sh.q \in {"empty", "strings", "pairs"}
    /\ sh.d \in {"empty", "strings"}
    /\ sh.i \in {"empty", "numbers"}
    /\ sh.p \in {"empty", "pairs"}

Matches(adapter, sh) ==
    IF adapter = "v1_44" THEN Matches_v1_44(sh)
    ELSE IF adapter = "v1_52" THEN Matches_v1_52(sh)
    ELSE Matches_v1_69(sh)

\* the order in which the adapters are tried
AdapterOrder == <<"v1_69", "v1_52", "v1_44">>

\* the adapters from the a-th on, tried in order: the first that matches
\* converts the object; an error once none is left
RECURSIVE TryAdapters(_, _, _)
TryAdapters(sh, raw, a) ==
    IF a > Len(AdapterOrder) THEN ReportedError
    ELSE IF Matches(AdapterOrder[a], sh) THEN CrateData_from(AdapterOrder[a], raw)
    ELSE TryAdapters(sh, raw, a + 1)

\* a package object decoded to canonical CrateData
Decode(e, raw) == TryAdapters(JsonShape(e, raw), raw, 1)

(***************************************************************************)
(* index.rs: Index::find.                                                  *)
(***************************************************************************)
\* Suffix without the separator
Suffix_no_separator(keyword) == keyword

\* format!("::{}", keyword)
Suffix(keyword) == "::" \o keyword

\* associated types (item type 16) are skipped
Skipped(item) == item.ty = 16

\* the owning path of an item: its path, then the path of its parent
FullPath(path, parent) == IF parent.some THEN (path \o "::") \o parent.val ELSE path

\* the carried path, changed by associated types no more than the results
CarriedPath_skipping_assoc(path, item) ==
    IF item.path = "" \/ item.ty = 16 THEN path ELSE item.path

\* path = if item.path.is_empty() { path } else { &item.path }
CarriedPath(path, item) == IF item.path = "" THEN path ELSE item.path

\* the loop over the items of one package, from item j on, with the path
\* carried over from the items before; paths[idx] panics out of range
RECURSIVE FindItems(_, _, _, _)
FindItems(data, keyword, path, j) ==
    IF j > Len(data.items) THEN Ok(<<>>)
    ELSE LET item == data.items[j]
             path2 == CarriedPath(path, item)
         IN IF Skipped(item) THEN FindItems(data, keyword, path2, j + 1)
            ELSE IF item.parent.some /\ item.parent.val >= Len(data.paths)
            THEN Panic
            ELSE LET full_path ==
                         FullPath(path2,
                                  IF item.parent.some
                                  THEN Some(data.paths[item.parent.val + 1][2])
                                  ELSE None)
                     full_name == (full_path \o "::") \o item.name
                     hit == IF StrEndsWith(full_name, keyword)
                            THEN <<[name |-> item.name, path |-> full_path,
                                    description |-> item.desc]>>
                            ELSE <<>>
                     more == FindItems(data, keyword, path2, j + 1)
                 IN IF more.ok THEN Ok(hit \o more.val) ELSE Panic

\* the loop over the packages, in the order the HashMap yields them
RECURSIVE FindCrates(_, _, _, _)
FindCrates(crates, keyword, order, k) ==
    IF k > Len(order) THEN Ok(<<>>)
    ELSE LET here == FindItems(crates[order[k]], keyword, order[k], 1)
             more == FindCrates(crates, keyword, order, k + 1)
         IN IF here.ok /\ more.ok THEN Ok(here.val \o more.val) ELSE Panic

Index_find(crates, keyword, order) ==
    LET matches == FindCrates(crates, Suffix(keyword), order, 1)
    IN IF matches.ok THEN Ok(Dedup(SortUnstable(matches.val))) ELSE Panic

(***************************************************************************)
(* The search index file: what the documentation generator writes for an   *)
(* item list in each schema generation.                                    *)
(***************************************************************************)
Packages == {"p", "q"}
ItemTypes == {3, 16}
ItemNames == {"Foo", "foo"}
ItemPaths == {"", "p::m"}
ItemDescs == {"d"}
ItemParents == {None, Some(0)}
\* the paths table of each package: that of q addresses nothing
CratePaths == [p |-> <<<<3, "Bar">>, <<3, "Baz">>>>, q |-> <<>>]
Keywords == {"Foo", "foo", "oo"}
Encodings == {"v1_44", "v1_52", "v1_69_raw", "v1_69_indexed"}
Orders == {<<"p", "q">>, <<"q", "p">>}

ItemPool ==
    [ty : ItemTypes, name : ItemNames, path : ItemPaths, desc : ItemDescs,
     parent : ItemParents]

RECURSIVE SeqsOfLen(_, _)
SeqsOfLen(S, n) ==
    IF n = 0 THEN {<<>>}
    ELSE {Append(s, x) : s \in SeqsOfLen(S, n - 1), x \in S}

\* the item lists of the packages: at most MaxItems items in all
LogicalData ==
    {[k \in Packages |->
        [items |-> IF k = "p" THEN ip ELSE iq, paths |-> CratePaths[k]]] :
        <<ip, iq>> \in
            UNION {SeqsOfLen(ItemPool, np) \X SeqsOfLen(ItemPool, nq) :
                    <<np, nq>> \in {x \in (0..MaxItems) \X (0..MaxItems) :
                                      x[1] + x[2] <= MaxItems}}}

RawParent(parent) == IF parent.some THEN parent.val + 1 ELSE 0

RECURSIVE TypeString(_)
TypeString(items) ==
    IF Len(items) = 0 THEN ""
    ELSE SubSeq(TypeCodes, Head(items).ty + 1, Head(items).ty + 1)
            \o TypeString(Tail(items))

RECURSIVE SparsePaths(_, _)
SparsePaths(items, j) ==
    IF j > Len(items) THEN <<>>
    ELSE (IF items[j].path = "" THEN <<>> ELSE <<<<j - 1, items[j].path>>>>)
            \o SparsePaths(items, j + 1)

Encode(e, L) ==
    IF e = "v1_44" THEN [i |-> L.items, p |-> L.paths]
    ELSE IF e = "v1_52" THEN
        [t |-> [j \in 1..Len(L.items) |-> L.items[j].ty],
         n |-> [j \in 1..Len(L.items) |-> L.items[j].name],
         q |-> [j \in 1..Len(L.items) |-> L.items[j].path],
         d |-> [j \in 1..Len(L.items) |-> L.items[j].desc],
         i |-> [j \in 1..Len(L.items) |-> RawParent(L.items[j].parent)],
         p |-> L.paths]
    ELSE
        [t |-> TypeString(L.items),
         n |-> [j \in 1..Len(L.items) |-> L.items[j].name],
         q |-> IF e = "v1_69_raw"
               THEN [kind |-> "Raw",
                     v |-> [j \in 1..Len(L.items) |-> L.items[j].path]]
               ELSE [kind |-> "Indexed", v |-> SparsePaths(L.items, 1)],
         d |-> [j \in 1..Len(L.items) |-> L.items[j].desc],
         i |-> [j \in 1..Len(L.items) |-> RawParent(L.items[j].parent)],
         p |-> L.paths]

\* a type string with the code at position bad (if any) not an item type code
Damaged(s, bad) ==
    IF bad = 0 THEN s
    ELSE (SubSeq(s, 1, bad - 1) \o "?") \o SubSeq(s, bad + 1, Len(s))

NoCrates == [k \in Packages |-> [items |-> <<>>, paths |-> <<>>]]
NoFile == [enc |-> "closed", logical |-> NoCrates, raw |-> NoCrates]
\* a file whose package objects are no search index data of any generation
JunkFile ==
    [enc |-> "junk",
     logical |-> [k \in Packages |-> [items |-> <<>>, paths |-> CratePaths[k]]],
     raw |-> [k \in Packages |-> [x |-> <<>>]]]
NoCall == [op |-> "none", enc |-> "-", keyword |-> "", ret |-> Ok(<<>>)]

IndexInit ==
    /\ name = Name_from("")
    /\ nop = NoNameCall
    /\ \/ \E L \in LogicalData, e \in Encodings :
            \E bad \in IF e \in {"v1_69_raw", "v1_69_indexed"}
                       THEN 0..Len(L["p"].items) ELSE {0} :
                file = [enc |-> e,
                        logical |-> L,
                        raw |-> [k \in Packages |->
                                   IF k = "p" /\ bad > 0
                                   THEN [Encode(e, L[k]) EXCEPT !.t = Damaged(@, bad)]
                                   ELSE Encode(e, L[k])]]
       \/ file = JunkFile
    /\ index = NoCrates
    /\ pc = "raw"
    /\ iret = NoCall
    /\ lines = <<>>
    /\ lineno = 0
    /\ json = None
    /\ finished = FALSE
    /\ lret = NoLoadCall
    /\ page = NoPage
    /\ sret = NoScrapeCall
    /\ lcall = NoLinkCall
    /\ mcall = NoMainCall
    /\ view = NoView
    /\ walk = NoWalk

\* serde converts every package with the first adapter that matches it
Convert ==
    /\ pc = "raw"
    /\ LET conv == [k \in Packages |-> Decode(file.enc, file.raw[k])]
       IN IF \A k \in Packages : conv[k].ok
          THEN /\ index' = [k \in Packages |-> conv[k].val]
               /\ pc' = "loaded"
               /\ iret' = [NoCall EXCEPT !.op = "load", !.enc = file.enc]
          ELSE IF \E k \in Packages : ~conv[k].ok /\ conv[k].val = Panic.val
          THEN /\ pc' = "panicked"
               /\ iret' = [NoCall EXCEPT !.op = "load", !.enc = file.enc, !.ret = Panic]
               /\ UNCHANGED index
          ELSE /\ pc' = "failed"
               /\ iret' = [NoCall EXCEPT !.op = "load", !.enc = file.enc,
                                         !.ret = ReportedError]
               /\ UNCHANGED index
    /\ file' = NoFile
    /\ UNCHANGED exceptIndex

\* Index::find(keyword), the map iterated in some order
Find(keyword, order) ==
    /\ pc = "loaded"
    /\ LET r == Index_find(index, keyword, order)
       IN /\ iret' = [op |-> "find", enc |-> "-", keyword |-> keyword, ret |-> r]
          /\ pc' = IF r.ok THEN "loaded" ELSE "panicked"
    /\ UNCHANGED <<file, index, exceptIndex>>

IndexNext ==
    \/ Convert
    \/ \E keyword \in Keywords, order \in Orders : Find(keyword, order)

IndexSpec == IndexInit /\ [][IndexNext]_vars

\* the Names built from every string, the search index not loaded
NameInit ==
    /\ \E s \in NameStrs :
        /\ name = Name_from(s)
        /\ nop = [op |-> "from", self |-> Name_from(s), arg |-> s,
                  ret |-> Ok(Name_from(s))]
    /\ file = NoFile
    /\ index = NoCrates
    /\ pc = "raw"
    /\ iret = NoCall
    /\ lines = <<>>
    /\ lineno = 0
    /\ json = None
    /\ finished = FALSE
    /\ lret = NoLoadCall
    /\ page = NoPage
    /\ sret = NoScrapeCall
    /\ lcall = NoLinkCall
    /\ mcall = NoMainCall
    /\ view = NoView
    /\ walk = NoWalk

NameSpec == NameInit /\ [][NameNext]_vars

(***************************************************************************)
(* Properties of Name, checked under NameSpec.                             *)
(***************************************************************************)
\* the offsets at which "::" occurs in s
SepOffsets(s) == {i \in 0..Len(s) : i + 2 <= Len(s) /\ SubSeq(s, i + 1, i + 2) = "::"}
HasSep(s) == SepOffsets(s) # {}
MinOf(S) == CHOOSE n \in S : \A m \in S : n <= m
MaxOf(S) == CHOOSE n \in S : \A m \in S : m <= n
StartsWithColon(s) == Len(s) > 0 /\ SubSeq(s, 1, 1) = ":"
HasColon(s) == \E i \in 1..Len(s) : SubSeq(s, i, i) = ":"

\* C1: Name::from(s) has full() = s, first() the prefix of s before the first
\* "::" (all of s if none), last() the suffix after the last "::" (all of s if
\* none), rest() None without "::" and else the suffix after the first "::";
\* a single ':' is no separator.
C1_Decomposition ==
    LET s == nop.self.s
        seps == SepOffsets(s)
    IN /\ nop.op = "from" =>
            /\ nop.ret.ok
            /\ Name_full(nop.ret.val) = Ok(nop.arg)
            /\ name = nop.ret.val
       /\ nop.op = "full" => nop.ret = Ok(s)
       /\ nop.op = "first" =>
            nop.ret = Ok(IF seps = {} THEN s ELSE SubSeq(s, 1, MinOf(seps)))
       /\ nop.op = "last" =>
            nop.ret = Ok(IF seps = {} THEN s ELSE SubSeq(s, MaxOf(seps) + 3, Len(s)))
       /\ nop.op = "rest" =>
            nop.ret = Ok(IF seps = {} THEN None
                         ELSE Some(SubSeq(s, MinOf(seps) + 3, Len(s))))

C1_Witness ==
    /\ nop.op = "first"
    /\ nop.self.s = "a:a::a"
    /\ nop.ret = Ok("a:a")

\* C2 as claimed: for a non-singleton n, n.parent().child(n.last()) = n; for
\* every p and every t without "::", p.child(t).parent() = Some(p) and
\* p.child(t).last() = t.
C2_RoundTripAnySegment ==
    /\ (nop.op = "parent" /\ ~Name_is_singleton(nop.self)) =>
            /\ nop.ret.ok /\ nop.ret.val.some
            /\ Name_child(nop.ret.val.val, Name_last(nop.self).val) = Ok(nop.self)
    /\ (nop.op = "child" /\ ~HasSep(nop.arg)) =>
            /\ Name_parent(nop.ret.val) = Ok(Some(nop.self))
            /\ Name_last(nop.ret.val) = Ok(nop.arg)

\* C2 amended: the same, for every t without "::" that does not begin with ':'.
C2_RoundTrip ==
    /\ (nop.op = "parent" /\ ~Name_is_singleton(nop.self)) =>
            /\ nop.ret.ok /\ nop.ret.val.some
            /\ Name_child(nop.ret.val.val, Name_last(nop.self).val) = Ok(nop.self)
    /\ (nop.op = "child" /\ ~HasSep(nop.arg) /\ ~StartsWithColon(nop.arg)) =>
            /\ Name_parent(nop.ret.val) = Ok(Some(nop.self))
            /\ Name_last(nop.ret.val) = Ok(nop.arg)

C2_Witness ==
    /\ nop.op = "child"
    /\ nop.self.s = "a:"
    /\ nop.arg = "a"
    /\ name.s = "a:::a"

\* C3: a.ends_with(b) iff a = b or a ends with "::" followed by b; for a b
\* that is one segment, iff b is the last segment of a; never by a raw suffix.
C3_EndsWithOnBoundary ==
    /\ nop.op = "ends_with" =>
        LET a == nop.self.s
            b == nop.arg
        IN /\ nop.ret.ok
           /\ nop.ret.val <=>
                (a = b \/ \E x \in 0..Len(a) : (SubSeq(a, 1, x) \o "::") \o b = a)
           /\ ~HasColon(b) => (nop.ret.val <=> Name_last(nop.self) = Ok(b))
    /\ Name_ends_with(Name_from("rand::error::Error"), Name_from("Error")) = Ok(TRUE)
    /\ Name_ends_with(Name_from("rand::erroreous"), Name_from("error")) = Ok(FALSE)
    /\ Name_ends_with(Name_from("foobar"), Name_from("bar")) = Ok(FALSE)

C3_Witness ==
    /\ nop.op = "ends_with"
    /\ nop.self.s = "a::aa"
    /\ nop.arg = "a"
    /\ nop.ret = Ok(FALSE)

\* C4: is_singleton() iff parent() is None iff the string has no "::"; a
\* singleton has first() = last() = full().
C4_Singleton ==
    /\ (Name_is_singleton(name) <=> Name_parent(name) = Ok(None))
    /\ (Name_is_singleton(name) <=> ~HasSep(name.s))
    /\ Name_is_singleton(name) =>
            /\ Name_first(name) = Name_full(name)
            /\ Name_last(name) = Name_full(name)
    /\ nop.op = "is_singleton" => nop.ret = Ok(~HasSep(nop.self.s))
    /\ nop.op = "parent" => (nop.ret = Ok(None) <=> ~HasSep(nop.self.s))

C4_Witness ==
    /\ nop.op = "is_singleton"
    /\ nop.self.s = "a:a"
    /\ nop.ret = Ok(TRUE)

\* C5: every Name operation returns normally; 0 <= first_end <= len(s),
\* 0 <= last_start <= len(s), and first_end + 2 <= last_start unless the name
\* is a singleton.
C5_NoPanic ==
    /\ nop.ret.ok
    /\ \A n \in {name, nop.self} :
        /\ 0 <= n.first_end /\ n.first_end <= Len(n.s)
        /\ 0 <= n.last_start /\ n.last_start <= Len(n.s)
        /\ ~Name_is_singleton(n) => n.first_end + 2 <= n.last_start
        /\ Name_first(n).ok /\ Name_last(n).ok /\ Name_rest(n).ok
        /\ Name_rest_or_first(n).ok /\ Name_parent(n).ok

C5_Witness ==
    /\ nop.op = "rest"
    /\ nop.self.s = ":::"
    /\ nop.ret = Ok(Some(":"))

(***************************************************************************)
(* Properties of the search index, checked under IndexSpec.                *)
(***************************************************************************)
Range(v) == {v[i] : i \in 1..Len(v)}
Crates == DOMAIN index

\* the path an item is filed under: its own, or that of the nearest item
\* before it that has one, or the package name
OwningPath(crates, k, j) ==
    LET items == crates[k].items
        own == {i \in 1..j : items[i].path # ""}
    IN IF own = {} THEN k ELSE items[MaxOf(own)].path

\* owning path, then the resolved parent path if any
ItemPath(crates, k, j) ==
    LET item == crates[k].items[j]
    IN IF item.parent.some
       THEN (OwningPath(crates, k, j) \o "::") \o crates[k].paths[item.parent.val + 1][2]
       ELSE OwningPath(crates, k, j)

DottedName(crates, k, j) == (ItemPath(crates, k, j) \o "::") \o crates[k].items[j].name

Entry(crates, k, j) ==
    [name |-> crates[k].items[j].name,
     path |-> ItemPath(crates, k, j),
     description |-> crates[k].items[j].desc]

\* the items find(keyword) is to return
Expected(crates, keyword) ==
    {Entry(crates, k, j) : <<k, j>> \in
        {x \in (DOMAIN crates) \X (1..MaxItems + 1) :
            /\ x[2] <= Len(crates[x[1]].items)
            /\ crates[x[1]].items[x[2]].ty # 16
            /\ LET full == DottedName(crates, x[1], x[2])
               IN \E n \in 0..Len(full) :
                    (SubSeq(full, 1, n) \o "::") \o keyword = full}}

ExampleCrates ==
    [p |-> [items |-> <<[ty |-> 11, name |-> "foo", path |-> "pkg", desc |-> "",
                         parent |-> Some(0)],
                        [ty |-> 3, name |-> "Foo", path |-> "pkg::mod", desc |-> "",
                         parent |-> None],
                        [ty |-> 16, name |-> "Foo", path |-> "pkg::mod", desc |-> "",
                         parent |-> None]>>,
            paths |-> <<<<3, "Bar">>>>]]

\* C6: find(keyword) returns an entry for an item iff the item is no associated
\* type (type 16) and its dotted name (owning path, resolved parent path if
\* any, item name) ends with "::" + keyword, case-sensitively; with
\* pkg::mod::Foo and pkg::Bar::foo, "Foo" finds the former only and "foo" the
\* latter only.
C6_FindMatches ==
    /\ (iret.op = "find" /\ iret.ret.ok) =>
            Range(iret.ret.val) = Expected(index, iret.keyword)
    /\ Index_find(ExampleCrates, "Foo", <<"p">>) =
            Ok(<<[name |-> "Foo", path |-> "pkg::mod", description |-> ""]>>)
    /\ Index_find(ExampleCrates, "foo", <<"p">>) =
            Ok(<<[name |-> "foo", path |-> "pkg::Bar", description |-> ""]>>)

C6_Witness ==
    /\ iret.op = "find"
    /\ iret.keyword = "Foo"
    /\ index["p"].items =
            <<[ty |-> 16, name |-> "Foo", path |-> "p::m", desc |-> "d", parent |-> None]>>
    /\ index["q"].items =
            <<[ty |-> 3, name |-> "Foo", path |-> "", desc |-> "d", parent |-> None]>>
    /\ iret.ret = Ok(<<[name |-> "Foo", path |-> "q", description |-> "d"]>>)

\* C7: the vector find returns is strictly ascending in IndexItem's order, so
\* has no two equal entries, and is the same for every iteration order of the
\* package map.
C7_SortedDeduplicated ==
    (iret.op = "find" /\ iret.ret.ok) =>
        LET v == iret.ret.val
        IN /\ \A i, j \in 1..Len(v) : i < j => IndexItem_cmp(v[i], v[j]) < 0
           /\ \A i, j \in 1..Len(v) : i # j => v[i] # v[j]
           /\ \A order \in Orders : Index_find(index, iret.keyword, order) = iret.ret

C7_Witness ==
    /\ iret.op = "find"
    /\ iret.keyword = "Foo"
    /\ index["p"].items =
            <<[ty |-> 3, name |-> "Foo", path |-> "p::m", desc |-> "d", parent |-> None]>>
    /\ index["q"].items =
            <<[ty |-> 3, name |-> "Foo", path |-> "p::m", desc |-> "d", parent |-> None]>>
    /\ Len(iret.ret.val) = 1

\* C8: in the parallel-array formats a raw parent 0 gives parent None and a raw
\* parent n > 0 gives Some(n - 1), which find resolves to the (n - 1)-th entry
\* of the paths table, never to paths[n].
C8_ParentDecoding ==
    /\ [][(pc = "raw" /\ pc' = "loaded" /\ file.enc # "v1_44") =>
            \A k \in Crates : \A j \in 1..Len(index'[k].items) :
                LET n == file.raw[k].i[j]
                IN index'[k].items[j].parent = IF n = 0 THEN None ELSE Some(n - 1)]_vars
    /\ []((iret.op = "find" /\ iret.ret.ok) =>
            \A e \in Range(iret.ret.val) :
                \E k \in Crates : \E j \in 1..Len(index[k].items) :
                    LET item == index[k].items[j]
                    IN /\ e.name = item.name
                       /\ item.parent.some => item.parent.val < Len(index[k].paths)
                       /\ e.path =
                            IF item.parent.some
                            THEN (OwningPath(index, k, j) \o "::")
                                    \o index[k].paths[item.parent.val + 1][2]
                            ELSE OwningPath(index, k, j))

C8_Witness ==
    /\ pc = "loaded"
    /\ iret.op = "find"
    /\ iret.keyword = "foo"
    /\ index["p"].items =
            <<[ty |-> 3, name |-> "foo", path |-> "", desc |-> "d", parent |-> Some(0)],
              [ty |-> 3, name |-> "foo", path |-> "", desc |-> "d", parent |-> None]>>
    /\ iret.ret = Ok(<<[name |-> "foo", path |-> "p", description |-> "d"],
                       [name |-> "foo", path |-> "p::Bar", description |-> "d"]>>)

\* the file is what the generator writes for its item lists
Undamaged ==
    /\ file.enc \in Encodings
    /\ \A k \in DOMAIN file.raw : file.raw[k] = Encode(file.enc, file.logical[k])

\* C9: the 1.44, 1.52 and 1.69 encodings (item paths plain or sparse) of one
\* item list convert to equal canonical CrateData: the same items in the same
\* order, and the same paths table.
C9_EncodingsAgree ==
    [][(pc = "raw" /\ Undamaged) =>
        /\ pc' = "loaded"
        /\ \A k \in Crates :
            /\ index'[k].items = file.logical[k].items
            /\ index'[k].paths = file.logical[k].paths
            /\ \A e \in Encodings :
                CrateData_from(e, Encode(e, file.logical[k])) = Ok(index'[k])]_vars

C9_Witness ==
    /\ pc = "loaded"
    /\ iret.op = "load"
    /\ iret.enc = "v1_69_indexed"
    /\ index["p"].items =
            <<[ty |-> 16, name |-> "Foo", path |-> "", desc |-> "d", parent |-> None],
              [ty |-> 3, name |-> "foo", path |-> "p::m", desc |-> "d", parent |-> Some(0)]>>

\* a packed type string holds a character that is no item type code
UnknownCode ==
    /\ file.enc \in {"v1_69_raw", "v1_69_indexed"}
    /\ \E k \in DOMAIN file.raw : \E j \in 1..Len(file.raw[k].t) :
            \A c \in 1..Len(TypeCodes) :
                SubSeq(file.raw[k].t, j, j) # SubSeq(TypeCodes, c, c)

\* C10: decoding a 1.69 package whose type string holds an unknown character
\* fails with a reported error; it neither aborts the process nor yields or
\* drops an item.
C10_UnknownCodeReported ==
    [][(pc = "raw" /\ UnknownCode) =>
        /\ pc' # "panicked"
        /\ iret'.ret = ReportedError]_vars

(***************************************************************************)
(* Properties of the adapter dispatch and of Index::find on a paths table  *)
(* that an item's parent does not address, checked under IndexSpec.        *)
(***************************************************************************)
\* the places in AdapterOrder of the adapters that match a package object
MatchingAdapters(e, raw) ==
    {a \in 1..Len(AdapterOrder) : Matches(AdapterOrder[a], JsonShape(e, raw))}

C13_OutOfRangeParentIsNoParent ==
    [][pc = "loaded" =>
        /\ pc' # "panicked"
        /\ iret'.ret.ok
        /\ \A k \in Crates : \A j \in 1..Len(index[k].items) :
            LET item == index[k].items[j]
            IN (/\ ~Skipped(item)
                /\ item.parent.some
                /\ item.parent.val >= Len(index[k].paths)
                /\ StrEndsWith((OwningPath(index, k, j) \o "::") \o item.name,
                               Suffix(iret'.keyword)))
               => [name |-> item.name, path |-> OwningPath(index, k, j),
                   description |-> item.desc] \in Range(iret'.ret.val)]_vars

(***************************************************************************)
(* index.rs: Index::load, the scan of the file for the wrapped payload.    *)
(* A file is its sequence of lines (BufRead::lines); the checks that the   *)
(* path is a file and that it reads as text come before the scan and are   *)
(* left out.                                                               *)
(***************************************************************************)
StartMarker == "var searchIndex = JSON.parse('{\\"
EndMarker == "}');"
\* a line of the payload: one package, an escaped apostrophe in it
GoodLine == "\"p\":{\"doc\":\"\\'\",\"i\":[],\"p\":[]}\\"
\* a line that is no JSON, ending in two backslashes
BadLine == "x\\\\"
\* the start marker without its trailing backslash
NearStart == "var searchIndex = JSON.parse('{"

LinePool == {StartMarker, EndMarker, GoodLine, BadLine, NearStart}

Files == UNION {SeqsOfLen(LinePool, n) : n \in 0..MaxLines}

\* str::trim_end_matches('\\')
RECURSIVE TrimEndBackslashes(_)
TrimEndBackslashes(s) ==
    IF Len(s) > 0 /\ SubSeq(s, Len(s), Len(s)) = "\\"
    THEN TrimEndBackslashes(SubSeq(s, 1, Len(s) - 1))
    ELSE s

\* a collected line that loses one trailing backslash only
Collected_one_backslash(line) ==
    IF Len(line) > 0 /\ SubSeq(line, Len(line), Len(line)) = "\\"
    THEN SubSeq(line, 1, Len(line) - 1)
    ELSE line

\* json.push_str(line.trim_end_matches('\\')): what a line adds to the payload
Collected(line) == TrimEndBackslashes(line)

\* str::replace("\\'", "'"), from offset i on
RECURSIVE UnescapeFrom(_, _)
UnescapeFrom(s, i) ==
    IF i > Len(s) THEN ""
    ELSE IF i < Len(s) /\ SubSeq(s, i, i + 1) = "\\'"
    THEN "'" \o UnescapeFrom(s, i + 2)
    ELSE SubSeq(s, i, i) \o UnescapeFrom(s, i + 1)

Unescape(s) == UnescapeFrom(s, 1)

\* the texts among those a file of LinePool lines can enclose that are a JSON
\* object of package objects: no package, or the package of GoodLine
ValidPayloads == {"{}", "{\"p\":{\"doc\":\"'\",\"i\":[],\"p\":[]}}"}

\* serde_json::from_str::<Data>(json) succeeds
ParsesAsData(s) == s \in ValidPayloads

CouldNotParse == "Could not parse search index"

\* Load_result that drops the parse error
Load_result_error_dropped(j, fin) ==
    IF j.some /\ fin /\ ParsesAsData(Unescape(j.val))
    THEN Ok(Some(Unescape(j.val)))
    ELSE Ok(None)

\* what load returns once the loop is left
Load_result(j, fin) ==
    IF j.some
    THEN IF fin
         THEN IF ParsesAsData(Unescape(j.val))
              THEN Ok(Some(Unescape(j.val)))
              ELSE Err(CouldNotParse)
         ELSE Ok(None)
    ELSE Ok(None)

LoadInit ==
    /\ name = Name_from("")
    /\ nop = NoNameCall
    /\ file = NoFile
    /\ index = NoCrates
    /\ pc = "raw"
    /\ iret = NoCall
    /\ lines \in Files
    /\ lineno = 0
    /\ json = None
    /\ finished = FALSE
    /\ lret = [op |-> "reading", ret |-> Ok(None)]
    /\ page = NoPage
    /\ sret = NoScrapeCall
    /\ lcall = NoLinkCall
    /\ mcall = NoMainCall
    /\ view = NoView
    /\ walk = NoWalk

\* one iteration of the loop over the lines
ReadLine ==
    /\ lret.op = "reading"
    /\ ~finished
    /\ lineno < Len(lines)
    /\ LET line == lines[lineno + 1]
       IN IF json.some
          THEN IF line = EndMarker
               THEN /\ json' = Some(json.val \o "}")
                    /\ finished' = TRUE
               ELSE /\ json' = Some(json.val \o Collected(line))
                    /\ UNCHANGED finished
          ELSE IF line = StartMarker
               THEN /\ json' = Some("{")
                    /\ UNCHANGED finished
               ELSE UNCHANGED <<json, finished>>
    /\ lineno' = lineno + 1
    /\ UNCHANGED <<lines, lret, exceptLoad>>

\* the loop is left (break, or no line left) and load returns
LoadReturn ==
    /\ lret.op = "reading"
    /\ finished \/ lineno = Len(lines)
    /\ lret' = [op |-> "load", ret |-> Load_result(json, finished)]
    /\ UNCHANGED <<lines, lineno, json, finished, exceptLoad>>

LoadNext ==
    \/ ReadLine
    \/ LoadReturn

LoadSpec == LoadInit /\ [][LoadNext]_vars

(***************************************************************************)
(* Properties of Index::load, checked under LoadSpec.                      *)
(***************************************************************************)
IsOkNone(r) == r.ok /\ ~r.val.some
IsOkSome(r) == r.ok /\ r.val.some
IsErr(r, msg) == ~r.ok /\ r.val = msg

\* the places of the lines equal to the start marker
StartLines == {i \in 1..Len(lines) : lines[i] = StartMarker}
\* the places of the end-marker lines after the first start marker
EndLines == {j \in 1..Len(lines) : StartLines # {} /\ j > MinOf(StartLines)
                                    /\ lines[j] = EndMarker}
WrapperFound == EndLines # {}
\* the lines between the first start marker and the end marker after it
Enclosed == SubSeq(lines, MinOf(StartLines) + 1, MinOf(EndLines) - 1)

Node(tag, class, id, decl) ==
    [tag |-> tag, class |-> class, id |-> id, decl |-> decl, doc |-> FALSE,
     a |-> None, text |-> "", children |-> <<>>]

TextNode == Node("#text", "", None, "none")
Docblock == Node("div", "docblock", None, "none")
PlainDiv == Node("div", "", None, "none")
SectionHeading == Node("h2", "", None, "none")

is_element(node, tag) == node.tag = tag
has_class(node, class) == node.class = class

\* impl str::FromStr for ItemType
ItemType_from_str(s) ==
    CASE s = "mod" -> Ok("Module")
      [] s = "externcrate" -> Ok("ExternCrate")
      [] s = "import" -> Ok("Import")
      [] s = "struct" -> Ok("Struct")
      [] s = "union" -> Ok("Union")
      [] s = "enum" -> Ok("Enum")
      [] s = "fn" -> Ok("Function")
      [] s = "type" -> Ok("Typedef")
      [] s = "static" -> Ok("Static")
      [] s = "trait" -> Ok("Trait")
      [] s = "impl" -> Ok("Impl")
      [] s = "tymethod" -> Ok("TyMethod")
      [] s = "method" -> Ok("Method")
      [] s = "structfield" -> Ok("StructField")
      [] s = "variant" -> Ok("Variant")
      [] s = "macro" -> Ok("Macro")
      [] s = "primitive" -> Ok("Primitive")
      [] s = "associatedtype" -> Ok("AssocType")
      [] s = "constant" -> Ok("Constant")
      [] s = "associatedconstant" -> Ok("AssocConst")
      [] s = "foreigntype" -> Ok("ForeignType")
      [] s = "keyword" -> Ok("Keyword")
      [] s = "opaque" -> Ok("OpaqueTy")
      [] s = "attr" -> Ok("ProcAttribute")
      [] s = "derive" -> Ok("ProcDerive")
      [] s = "traitalias" -> Ok("TraitAlias")
      [] OTHER -> Err("Unsupported item type: " \o s)

\* get_item_id: the token of an item type in element ids and file names
get_item_id(ty) ==
    CASE ty = "Module" -> "mod"
      [] ty = "ExternCrate" -> "externcrate"
      [] ty = "Import" -> "import"
      [] ty = "Struct" -> "struct"
      [] ty = "Union" -> "union"
      [] ty = "Enum" -> "enum"
      [] ty = "Function" -> "fn"
      [] ty = "Typedef" -> "type"
      [] ty = "Static" -> "static"
      [] ty = "Trait" -> "trait"
      [] ty = "Impl" -> "impl"
      [] ty = "TyMethod" -> "tymethod"
      [] ty = "Method" -> "method"
      [] ty = "StructField" -> "structfield"
      [] ty = "Variant" -> "variant"
      [] ty = "Macro" -> "macro"
      [] ty = "Primitive" -> "primitive"
      [] ty = "AssocType" -> "associatedtype"
      [] ty = "Constant" -> "constant"
      [] ty = "AssocConst" -> "associatedconstant"
      [] ty = "ForeignType" -> "foreigntype"
      [] ty = "Keyword" -> "keyword"
      [] ty = "OpaqueTy" -> "opaque"
      [] ty = "ProcAttribute" -> "attr"
      [] ty = "ProcDerive" -> "derive"
      [] ty = "TraitAlias" -> "traitalias"

\* get_item_group_id: the id of the heading of the members of an item type
get_item_group_id(ty) ==
    CASE ty = "Module" -> "modules"
      [] ty = "Struct" -> "structs"
      [] ty = "Enum" -> "enums"
      [] ty = "Function" -> "functions"
      [] ty = "Impl" -> "impls"
      [] ty = "TyMethod" -> "required-methods"
      [] ty = "Method" -> "methods"
      [] ty = "StructField" -> "fields"
      [] ty = "Variant" -> "variants"
      [] ty = "AssocType" -> "associated-types"
      [] ty = "AssocConst" -> "associated-consts"

\* str::splitn(2, c).next(): the text before the first c, or all of it
BeforeFirst(s, c) ==
    LET f == StrFind(s, c) IN IF f.some THEN SubSeq(s, 1, f.val) ELSE s

\* str::splitn(2, c).nth(1): the text after the first c, if there is a c
AfterFirst(s, c) ==
    LET f == StrFind(s, c)
    IN IF f.some THEN Some(SubSeq(s, f.val + 2, Len(s))) ELSE None

\* get_id_part(node, i), for the id attribute of the node and i in {0, 1}
get_id_part(id, i) ==
    IF id.some
    THEN LET part == IF i = 0 THEN Some(BeforeFirst(id.val, "."))
                     ELSE AfterFirst(id.val, ".")
         IN IF part.some THEN Some(BeforeFirst(part.val, "-")) ELSE None
    ELSE None

\* the item whose page is scraped
ParentName == Name_from("p::F")

\* doc::Doc::new(name, ty)
Doc_new(n, ty) ==
    [name |-> n.s, ty |-> ty, description |-> None, definition |-> None,
     groups |-> <<>>]

\* MemberDocs::push: the pending name and definition are taken; a Doc is
\* added if there was a name
MemberDocs_push(docs, ty, nm, definition, description) ==
    IF nm.some
    THEN Append(docs, [Doc_new(Name_child(ParentName, nm.val).val, ty)
                        EXCEPT !.definition = definition,
                               !.description = description])
    ELSE docs

\* into_member_group that keeps a group without members
into_member_group_keeps_empty(docs, title) == Some([title |-> title, members |-> docs])

\* MemberDocs::into_member_group
into_member_group(docs, title) ==
    IF Len(docs) = 0 THEN None ELSE Some([title |-> title, members |-> docs])

\* MemberDocs::into_member_groups: Option::into_iter().collect()
into_member_groups(docs, title) ==
    LET g == into_member_group(docs, title)
    IN IF g.some THEN <<g.val>> ELSE <<>>

\* NodeRefExt::next_sibling_element of the heading: the place in the chain
\* of the first node from i on that is an element, Len + 1 if none
RECURSIVE next_sibling_element(_, _)
next_sibling_element(chain, i) ==
    IF i > Len(chain) THEN i
    ELSE IF chain[i].tag # "#text" THEN i
    ELSE next_sibling_element(chain, i + 1)

\* the walk of a member chain before its first step
WalkStart == [docs |-> <<>>, name |-> None, definition |-> None, stop |-> FALSE]

\* get_fields: the body of the loop for the element at place i
Fields_step(w, element, i) ==
    IF is_element(element, "span") /\ has_class(element, "structfield")
    THEN [docs |-> MemberDocs_push(w.docs, "StructField", w.name, w.definition, None),
          name |-> get_id_part(element.id, 1),
          definition |-> Some(i),
          stop |-> FALSE]
    ELSE IF is_element(element, "div")
    THEN IF has_class(element, "docblock")
         THEN [docs |-> MemberDocs_push(w.docs, "StructField", w.name, w.definition,
                                        Some(i)),
               name |-> None, definition |-> None, stop |-> FALSE]
         ELSE w
    ELSE [docs |-> MemberDocs_push(w.docs, "StructField", w.name, w.definition, None),
          name |-> None, definition |-> None, stop |-> TRUE]

\* get_variants: the body of the loop for the element at place i
Variants_step(w, element, i) ==
    IF is_element(element, "div")
    THEN IF has_class(element, "variant")
         THEN [docs |-> MemberDocs_push(w.docs, "Variant", w.name, w.definition, None),
               name |-> get_id_part(element.id, 1),
               definition |-> Some(i),
               stop |-> FALSE]
         ELSE IF has_class(element, "docblock")
         THEN [docs |-> MemberDocs_push(w.docs, "Variant", w.name, w.definition,
                                        Some(i)),
               name |-> None, definition |-> None, stop |-> FALSE]
         ELSE w
    ELSE [docs |-> MemberDocs_push(w.docs, "Variant", w.name, w.definition, None),
          name |-> None, definition |-> None, stop |-> TRUE]

\* the loop `while let Some(element) = &next`: from place i until the chain
\* ends or the body breaks; what is pending when the chain ends stays pending
RECURSIVE Fields_walk(_, _, _)
Fields_walk(w, chain, i) ==
    IF i > Len(chain) \/ w.stop THEN w
    ELSE Fields_walk(Fields_step(w, chain[i], i), chain, i + 1)

RECURSIVE Variants_walk(_, _, _)
Variants_walk(w, chain, i) ==
    IF i > Len(chain) \/ w.stop THEN w
    ELSE Variants_walk(Variants_step(w, chain[i], i), chain, i + 1)

\* the nodes that follow the heading with this id, if the page has it
ChainOf(pg, heading_id) == IF pg.group = heading_id THEN Some(pg.chain) ELSE None

\* get_fields(document, parent)
get_fields(pg) ==
    LET c == ChainOf(pg, get_item_group_id("StructField"))
        docs == IF c.some
                THEN Fields_walk(WalkStart, c.val, next_sibling_element(c.val, 1)).docs
                ELSE <<>>
    IN <<"StructField", into_member_groups(docs, None)>>

\* get_variants(document, parent)
get_variants(pg) ==
    LET c == ChainOf(pg, get_item_group_id("Variant"))
        docs == IF c.some
                THEN Variants_walk(WalkStart, c.val, next_sibling_element(c.val, 1)).docs
                ELSE <<>>
    IN <<"Variant", into_member_groups(docs, None)>>

\* get_method_group: the body of the loop for the child at place i.  A
\* details child of class method-toggle holds summary > div.method with the
\* id, and under that div an h4.code-header iff decl = "code-header".
Methods_step(w, element, i, ty, heading_type) ==
    IF is_element(element, heading_type) /\ has_class(element, "method")
    THEN [docs |-> MemberDocs_push(w.docs, ty, w.name, w.definition, None),
          name |-> get_id_part(element.id, 1),
          definition |-> IF element.decl = "code" THEN Some(i) ELSE None,
          stop |-> FALSE]
    ELSE IF is_element(element, "div") /\ has_class(element, "docblock")
    THEN [docs |-> MemberDocs_push(w.docs, ty, w.name, w.definition, Some(i)),
          name |-> None, definition |-> None, stop |-> FALSE]
    ELSE IF is_element(element, "details")
    THEN LET w1 == IF /\ has_class(element, "method-toggle")
                      /\ element.decl = "code-header"
                      /\ heading_type = "h4"
                   THEN [docs |-> MemberDocs_push(w.docs, ty, w.name, w.definition,
                                                  None),
                         name |-> get_id_part(element.id, 1),
                         definition |-> Some(i),
                         stop |-> FALSE]
                   ELSE w
         IN IF element.doc
            THEN [docs |-> MemberDocs_push(w1.docs, ty, w1.name, w1.definition,
                                           Some(i)),
                  name |-> None, definition |-> None, stop |-> FALSE]
            ELSE w1
    ELSE w

\* the loop `for element in impl_items.children()`
RECURSIVE Methods_walk(_, _, _, _, _)
Methods_walk(w, children, i, ty, heading_type) ==
    IF i > Len(children) THEN w
    ELSE Methods_walk(Methods_step(w, children[i], i, ty, heading_type),
                      children, i + 1, ty, heading_type)

\* get_method_group(parent, title, impl_items, ty, heading_type)
get_method_group(title, impl_items, ty, heading_type) ==
    into_member_group(
        Methods_walk(WalkStart, impl_items.children, 1, ty, heading_type).docs, title)

\* get_impl_items: the text of the node at place i is the title
get_impl_items(i, impl_items, ty, subheading_type) ==
    IF is_element(impl_items, "div") /\ has_class(impl_items, "impl-items")
    THEN get_method_group(Some(i), impl_items, ty, subheading_type)
    ELSE None

\* get_method_groups: the loop over the subheadings, from place i on.  An
\* h3.impl is followed by its div.impl-items; a details holds summary > h3
\* and, after the summary, the div.impl-items whose children are the node's
\* children.
RECURSIVE MethodGroups_walk(_, _, _, _)
MethodGroups_walk(chain, i, ty, subheading_type) ==
    IF i > Len(chain) THEN <<>>
    ELSE LET subheading == chain[i]
         IN IF is_element(subheading, "h3") /\ has_class(subheading, "impl")
            THEN IF i + 1 <= Len(chain)
                 THEN LET g == get_impl_items(i, chain[i + 1], ty, subheading_type)
                      IN (IF g.some THEN <<g.val>> ELSE <<>>)
                            \o MethodGroups_walk(chain, i + 2, ty, subheading_type)
                 ELSE <<>>
            ELSE IF is_element(subheading, "details")
            THEN LET g == get_impl_items(i, [subheading EXCEPT !.tag = "div",
                                                              !.class = "impl-items"],
                                         ty, subheading_type)
                 IN (IF g.some THEN <<g.val>> ELSE <<>>)
                        \o MethodGroups_walk(chain, i + 1, ty, subheading_type)
            ELSE <<>>

get_method_groups(pg, heading_id, ty, subheading_type) ==
    LET c == ChainOf(pg, heading_id)
    IN IF c.some
       THEN MethodGroups_walk(c.val, next_sibling_element(c.val, 1), ty,
                              subheading_type)
       ELSE <<>>

\* the group of the container that follows the heading with this id: read
\* with the first heading type, then with the second if that gave nothing
ContainerGroup(pg, heading_id, title, ty, first_type, second_type) ==
    LET c == ChainOf(pg, heading_id)
    IN IF c.some /\ Len(c.val) > 0
       THEN LET g == get_method_group(title, c.val[1], ty, first_type)
                g2 == IF g.some \/ second_type = "none" THEN g
                      ELSE get_method_group(title, c.val[1], ty, second_type)
            IN IF g2.some THEN <<g2.val>> ELSE <<>>
       ELSE <<>>

\* get_methods(document, parent)
get_methods(pg) ==
    <<"Method",
      get_method_groups(pg, "methods", "Method", "h4")
        \o get_method_groups(pg, "implementations", "Method", "h4")
        \o get_method_groups(pg, "implementations", "Method", "h2")
        \o ContainerGroup(pg, "deref-methods", Some("deref"), "Method", "h4", "none")
        \o ContainerGroup(pg, "required-methods", Some("Required Methods"),
                          "TyMethod", "h3", "h4")
        \o ContainerGroup(pg, "provided-methods", Some("Provided Methods"),
                          "TyMethod", "h3", "h4")>>

\* get_assoc_types(document, parent)
get_assoc_types(pg) ==
    <<"AssocType",
      ContainerGroup(pg, "associated-types", None, "AssocType", "h3", "h4")>>

\* the order MemberDocs::sort puts two Docs in: by name, then by definition
Doc_cmp(d1, d2) ==
    LET c == StrCmp(d1.name, d2.name)
    IN IF c # 0 THEN c
       ELSE IF d1.definition.val < d2.definition.val THEN -1
       ELSE IF d1.definition.val > d2.definition.val THEN 1
       ELSE 0

\* Vec::sort_by, a stable sort: d goes after the Docs not greater than it
RECURSIVE SortDocs(_)
SortDocs(docs) ==
    IF Len(docs) <= 1 THEN docs
    ELSE LET sorted == SortDocs(SubSeq(docs, 1, Len(docs) - 1))
             d == docs[Len(docs)]
             k == Cardinality({i \in 1..Len(sorted) : Doc_cmp(sorted[i], d) <= 0})
         IN (SubSeq(sorted, 1, k) \o <<d>>) \o SubSeq(sorted, k + 1, Len(sorted))

\* get_implementation_group: the loop over the children of the list
RECURSIVE Impls_walk(_, _, _)
Impls_walk(docs, children, i) ==
    IF i > Len(children) THEN docs
    ELSE LET item == children[i]
             h3 == \/ is_element(item, "details")
                   \/ is_element(item, "h3") /\ has_class(item, "impl")
                   \/ is_element(item, "div") /\ has_class(item, "impl")
         IN Impls_walk(IF h3 THEN MemberDocs_push(docs, "Impl", item.a, Some(i), None)
                       ELSE docs,
                       children, i + 1)

get_implementation_group(pg, title, list_id) ==
    LET c == ChainOf(pg, list_id)
    IN into_member_group(SortDocs(IF c.some THEN Impls_walk(<<>>, c.val, 1) ELSE <<>>),
                         Some(title))

\* the lists of implementations a page may have, with their titles
ImplementationLists ==
    <<<<"Trait Implementations", "implementations-list">>,
      <<"Trait Implementations", "trait-implementations-list">>,
      <<"Auto Trait Implementations", "synthetic-implementations-list">>,
      <<"Blanket Implementations", "blanket-implementations-list">>>>

RECURSIVE Implementations_from(_, _)
Implementations_from(pg, k) ==
    IF k > Len(ImplementationLists) THEN <<>>
    ELSE LET g == get_implementation_group(pg, ImplementationLists[k][1],
                                           ImplementationLists[k][2])
         IN (IF g.some THEN <<g.val>> ELSE <<>>) \o Implementations_from(pg, k + 1)

\* get_implementations(document, parent)
get_implementations(pg) == <<"Impl", Implementations_from(pg, 1)>>

\* the loop of parse_item_doc over the five member lists: only the item
\* types with a group are entered in doc.groups
RECURSIVE InsertGroups(_, _)
InsertGroups(members, k) ==
    IF k > Len(members) THEN <<>>
    ELSE (IF Len(members[k][2]) > 0 THEN <<members[k]>> ELSE <<>>)
            \o InsertGroups(members, k + 1)

\* Parser::parse_item_doc(name, ty): the definition and description of the
\* page (present or not), then the groups
parse_item_doc(pg, n, ty) ==
    Ok([Doc_new(n, ty) EXCEPT
            !.description = IF pg.top.description THEN Some("description") ELSE None,
            !.definition = IF pg.top.definition THEN Some("definition") ELSE None,
            !.groups = InsertGroups(<<get_variants(pg), get_fields(pg),
                                      get_assoc_types(pg), get_methods(pg),
                                      get_implementations(pg)>>, 1)])

\* the module member types, in the order parse_module_doc reads them
MODULE_MEMBER_TYPES ==
    <<"ExternCrate", "Import", "Primitive", "Module", "Macro", "Struct", "Enum",
      "Constant", "Static", "Trait", "Function", "Typedef", "Union">>

\* get_item_group_id for the module member types
ModuleGroupId(ty) ==
    CASE ty = "ExternCrate" -> "extern-crates"
      [] ty = "Import" -> "imports"
      [] ty = "Primitive" -> "primitives"
      [] ty = "Module" -> "modules"
      [] ty = "Macro" -> "macros"
      [] ty = "Struct" -> "structs"
      [] ty = "Enum" -> "enums"
      [] ty = "Constant" -> "constants"
      [] ty = "Static" -> "statics"
      [] ty = "Trait" -> "traits"
      [] ty = "Function" -> "functions"
      [] ty = "Typedef" -> "types"
      [] ty = "Union" -> "unions"

\* a row of the legacy table: the text of the link in its first cell, and the
\* text of its second cell if it has one
Row(item_name, docblock) ==
    [Node("tr", "", None, "none") EXCEPT !.a = Some(item_name), !.doc = docblock.some,
                                         !.text = docblock.val]
\* the two blocks of a member in the item-table layout
ModuleItem(item_name) ==
    [Node("div", "module-item", None, "none") EXCEPT !.text = item_name]
DocblockShort(text) ==
    [Node("div", "docblock-short", None, "none") EXCEPT !.text = text]

\* the text of a row's second cell, of a module-item or of a docblock-short
TextContents(node) == node.text

\* get_members, `#<group> + table`: one Doc for every first cell with a child
RECURSIVE TableMembers(_, _, _)
TableMembers(rows, ty, i) ==
    IF i > Len(rows) THEN <<>>
    ELSE (IF is_element(rows[i], "tr") /\ rows[i].a.some
          THEN <<[Doc_new(Name_child(ParentName, rows[i].a.val).val, ty) EXCEPT
                    !.description = IF rows[i].doc THEN Some(TextContents(rows[i]))
                                    ELSE None]>>
          ELSE <<>>)
            \o TableMembers(rows, ty, i + 1)

\* ItemTableMembers that takes the children one by one
RECURSIVE ItemTableMembers_unpaired(_, _, _)
ItemTableMembers_unpaired(children, ty, i) ==
    IF i + 1 > Len(children) THEN <<>>
    ELSE (IF /\ has_class(children[i], "module-item")
             /\ has_class(children[i + 1], "docblock-short")
          THEN <<[Doc_new(Name_child(ParentName, TextContents(children[i])).val, ty)
                    EXCEPT !.description = Some(TextContents(children[i]))]>>
          ELSE <<>>)
            \o ItemTableMembers_unpaired(children, ty, i + 1)

\* get_members, `#<group> + div.item-table`: the children two by two
RECURSIVE ItemTableMembers(_, _, _)
ItemTableMembers(children, ty, i) ==
    IF i + 1 > Len(children) THEN <<>>
    ELSE (IF /\ has_class(children[i], "module-item")
             /\ has_class(children[i + 1], "docblock-short")
          THEN <<[Doc_new(Name_child(ParentName, TextContents(children[i])).val, ty)
                    EXCEPT !.description = Some(TextContents(children[i + 1]))]>>
          ELSE <<>>)
            \o ItemTableMembers(children, ty, i + 2)

\* get_members(document, parent, ty)
get_members(pg, ty) ==
    LET c == ChainOf(pg, ModuleGroupId(ty))
    IN (IF c.some /\ pg.layout = "table" THEN TableMembers(c.val, ty, 1) ELSE <<>>)
        \o (IF c.some /\ pg.layout = "item-table"
            THEN ItemTableMembers(c.val, ty, 1) ELSE <<>>)

\* the loop of parse_module_doc over the member types
RECURSIVE ModuleGroups(_, _)
ModuleGroups(pg, k) ==
    IF k > Len(MODULE_MEMBER_TYPES) THEN <<>>
    ELSE LET members == get_members(pg, MODULE_MEMBER_TYPES[k])
         IN (IF Len(members) > 0
             THEN <<<<MODULE_MEMBER_TYPES[k], <<[title |-> None, members |-> members]>>>>>>
             ELSE <<>>)
                \o ModuleGroups(pg, k + 1)

\* Parser::parse_module_doc(name)
parse_module_doc(pg, n) ==
    Ok([Doc_new(n, "Module") EXCEPT
            !.description = IF pg.top.description THEN Some("description") ELSE None,
            !.groups = ModuleGroups(pg, 1)])

\* get_member_selector(ty, name): the id the selector asks for
get_member_id(ty, last) == (get_item_id(ty) \o ".") \o last

\* the elements with an id, in document order: <<node, place, next>> with
\* next the text of the node's next sibling or, for a node without one, of
\* its parent's next sibling (Option).  The div.method of a details is the
\* only child of the summary; the docblock of the details follows the summary.
RECURSIVE ElementsWithId(_, _, _)
ElementsWithId(sibs, i, parent_next) ==
    IF i > Len(sibs) THEN <<>>
    ELSE LET node == sibs[i]
             next == IF i < Len(sibs) THEN Some(i + 1) ELSE None
             here == IF ~node.id.some THEN <<>>
                     ELSE IF is_element(node, "details")
                     THEN <<<<node, i, IF node.doc THEN Some(i) ELSE None>>>>
                     ELSE <<<<node, i, IF next.some THEN next ELSE parent_next>>>>
         IN (here \o ElementsWithId(node.children, 1, next))
                \o ElementsWithId(sibs, i + 1, parent_next)

\* select_first(document, "#<id>")
select_first_id(pg, id) ==
    LET hits == SelectSeq(ElementsWithId(pg.chain, 1, None),
                          LAMBDA e : e[1].id.val = id)
    IN IF Len(hits) > 0 THEN Some(hits[1]) ELSE None

\* Parser::parse_member_doc(name, ty)
parse_member_doc(pg, n, ty) ==
    LET heading == select_first_id(pg, get_member_id(ty, Name_last(n).val))
    IN IF ~heading.some THEN Err("Could not find member " \o n.s)
       ELSE IF heading.val[1].decl \notin {"code", "code-header"}
       THEN Err(("The member " \o n.s) \o " does not have a definition")
       ELSE Ok([Doc_new(n, ty) EXCEPT
                    !.definition = Some(heading.val[2]),
                    !.description = heading.val[3]])

\* MEMBER_TYPES with the required methods of a trait among them
MEMBER_TYPES_with_tymethod ==
    <<"StructField", "Variant", "AssocType", "AssocConst", "Method", "TyMethod">>

\* the item types get_member builds a selector for
MEMBER_TYPES == <<"StructField", "Variant", "AssocType", "AssocConst", "Method">>

\* get_member(document, name): the first element, in document order, that
\* one of the selectors "#<token>\.<name>" matches
get_member(pg, last) ==
    LET ids == {get_member_id(MEMBER_TYPES[i], last) : i \in 1..Len(MEMBER_TYPES)}
        hits == SelectSeq(ElementsWithId(pg.chain, 1, None),
                          LAMBDA e : e[1].id.val \in ids)
    IN IF Len(hits) > 0 THEN Some(hits[1]) ELSE None

\* Parser::find_member(name)
find_member(pg, n) ==
    LET member == get_member(pg, Name_last(n).val)
    IN IF ~member.some THEN Ok(None)
       ELSE IF ~member.val[1].id.some
       THEN Err(("The member " \o n.s) \o " does not have an ID")
       ELSE LET ty == ItemType_from_str(BeforeFirst(member.val[1].id.val, "."))
            IN IF ty.ok THEN Ok(Some(ty.val)) ELSE ty

(***************************************************************************)
(* The documents: an item page has at most one heading of member groups,   *)
(* followed by the chain; a module page has one member list, in the legacy *)
(* table layout or in the item-table layout.                               *)
(***************************************************************************)
SeqsUpTo(S, n) == UNION {SeqsOfLen(S, k) : k \in 0..n}

FieldPool ==
    {Node("span", "structfield", Some("structfield.a"), "code"),
     Node("span", "structfield", None, "code"),
     Docblock, PlainDiv, SectionHeading}

VariantPool ==
    {Node("div", "variant", Some("variant.a"), "code"),
     Node("div", "variant", None, "code"),
     Docblock, PlainDiv, SectionHeading}

\* the details of a method since Rust 1.54
MethodDetails(id, doc) ==
    [Node("details", "method-toggle", id, "code-header") EXCEPT !.doc = doc]

\* the children of a container of methods whose headings are <tag>.method
MethodPool(tag, token) ==
    {Node(tag, "method", Some(token \o ".a"), "code"),
     Node(tag, "method", Some(token \o ".a"), "none"),
     Docblock, TextNode,
     MethodDetails(Some(token \o ".a"), TRUE),
     MethodDetails(Some(token \o ".a"), FALSE)}

Container(children) ==
    [Node("div", "impl-items", None, "none") EXCEPT !.children = children]

\* the headings of the groups that are one container, with the tag and
\* the id token of the method headings in it
ContainerGroups ==
    {<<"deref-methods", "h4", "method">>,
     <<"required-methods", "h3", "tymethod">>,
     <<"associated-types", "h4", "associatedtype">>}

H3Impl(a) == [Node("h3", "impl", None, "none") EXCEPT !.a = a]
MethodHeading == Node("h4", "method", Some("method.a"), "code")

ImplPool ==
    {H3Impl(None),
     Container(<<>>),
     Container(<<MethodHeading>>),
     Container(<<MethodHeading, Docblock>>),
     [Node("details", "implementors-toggle", None, "none")
        EXCEPT !.children = <<MethodHeading, Docblock>>],
     SectionHeading}

ImplListPool == {H3Impl(Some("B")), H3Impl(Some("F")), H3Impl(None), PlainDiv}

Present == [definition |-> TRUE, description |-> TRUE]

ItemPage(group, chain, top) ==
    [kind |-> "item", group |-> group, layout |-> "none", chain |-> chain,
     content |-> <<>>, top |-> top]

ItemPages ==
    {ItemPage("none", <<>>, top) : top \in [definition : BOOLEAN, description : BOOLEAN]}
    \cup {ItemPage("fields", c, Present) : c \in SeqsUpTo(FieldPool, MaxChain)}
    \cup {ItemPage("variants", c, Present) : c \in SeqsUpTo(VariantPool, MaxChain)}
    \cup UNION {{ItemPage(g[1], <<Container(c)>>, Present) :
                    c \in SeqsUpTo(MethodPool(g[2], g[3]), MaxChildren)} :
                g \in ContainerGroups}
    \cup {ItemPage("implementations", c, Present) : c \in SeqsUpTo(ImplPool, MaxChildren)}
    \cup {ItemPage("trait-implementations-list", c, Present) :
            c \in SeqsUpTo(ImplListPool, MaxChildren)}

\* the members of a module: name and short description
MemberPool == {[name |-> "a", text |-> "x"], [name |-> "b", text |-> ""]}

\* the legacy table of a member list
RenderTable(content) ==
    [i \in 1..Len(content) |-> Row(content[i].name, Some(content[i].text))]

\* the item-table of a member list
RECURSIVE RenderItemTable(_)
RenderItemTable(content) ==
    IF Len(content) = 0 THEN <<>>
    ELSE <<ModuleItem(Head(content).name), DocblockShort(Head(content).text)>>
            \o RenderItemTable(Tail(content))

Render(layout, content) ==
    IF layout = "table" THEN RenderTable(content) ELSE RenderItemTable(content)

\* nodes of a member list that is not what the generator writes
RawPool == {Row("a", None), ModuleItem("a"), DocblockShort("x"), PlainDiv}

ModulePage(group, layout, chain, content) ==
    [kind |-> "module", group |-> group, layout |-> layout, chain |-> chain,
     content |-> content, top |-> Present]

ModuleLayouts == {"table", "item-table"}
ModulePageGroups == {"structs", "functions"}

ModulePages ==
    {ModulePage(g, l, Render(l, content), content) :
        g \in ModulePageGroups, l \in ModuleLayouts,
        content \in SeqsUpTo(MemberPool, MaxChildren)}
    \cup {ModulePage(g, l, c, <<>>) :
        g \in ModulePageGroups, l \in ModuleLayouts,
        c \in SeqsUpTo(RawPool, MaxChildren)}

\* the id attributes get_id_part may meet
IdAlphabet == {"a", "1", ".", "-"}

RECURSIVE IdStrs(_)
IdStrs(n) ==
    IF n = 0 THEN {""}
    ELSE LET S == IdStrs(n - 1) IN S \cup {s \o c : s \in S, c \in IdAlphabet}

\* a document that is one element, with or without an id
ElementPages ==
    {[kind |-> "element", group |-> "none", layout |-> "none",
      chain |-> <<Node("span", "", id, "none")>>, content |-> <<>>, top |-> Present] :
        id \in {None} \cup {Some(s) : s \in IdStrs(MaxIdLen)}}

Pages == ItemPages \cup ModulePages \cup ElementPages

\* the nodes of a page, those of its containers included
RECURSIVE PageSize(_)
PageSize(chain) ==
    IF Len(chain) = 0 THEN 0 ELSE 1 + PageSize(Head(chain).children) + PageSize(Tail(chain))

MemberTypes == {"StructField", "Variant", "Method", "TyMethod", "AssocType"}
MemberName == Name_from("p::F::a")

ScrapeInit ==
    /\ name = Name_from("")
    /\ nop = NoNameCall
    /\ file = NoFile
    /\ index = NoCrates
    /\ pc = "raw"
    /\ iret = NoCall
    /\ lines = <<>>
    /\ lineno = 0
    /\ json = None
    /\ finished = FALSE
    /\ lret = NoLoadCall
    /\ page \in Pages
    /\ sret = NoScrapeCall
    /\ lcall = NoLinkCall
    /\ mcall = NoMainCall
    /\ view = NoView
    /\ walk = NoWalk

Call(op, n, ty, ret) == [op |-> op, name |-> n, ty |-> ty, ret |-> ret]

ParseItemDoc ==
    /\ sret.op = "none"
    /\ page.kind = "item"
    /\ sret' = Call("parse_item_doc", ParentName.s, "Struct",
                    parse_item_doc(page, ParentName, "Struct"))
    /\ UNCHANGED <<page, exceptScrape>>

ParseModuleDoc ==
    /\ sret.op = "none"
    /\ page.kind = "module"
    /\ sret' = Call("parse_module_doc", ParentName.s, "Module",
                    parse_module_doc(page, ParentName))
    /\ UNCHANGED <<page, exceptScrape>>

ParseMemberDoc(ty) ==
    /\ sret.op = "none"
    /\ page.kind = "item"
    /\ PageSize(page.chain) <= MaxChildren + 1
    /\ sret' = Call("parse_member_doc", MemberName.s, ty,
                    parse_member_doc(page, MemberName, ty))
    /\ UNCHANGED <<page, exceptScrape>>

ParserFindMember ==
    /\ sret.op = "none"
    /\ page.kind = "item"
    /\ PageSize(page.chain) <= MaxChildren + 1
    /\ sret' = Call("find_member", MemberName.s, "none",
                    find_member(page, MemberName))
    /\ UNCHANGED <<page, exceptScrape>>

GetFields ==
    /\ sret.op = "none"
    /\ page.group = "fields"
    /\ sret' = Call("get_fields", ParentName.s, "StructField", Ok(get_fields(page)[2]))
    /\ UNCHANGED <<page, exceptScrape>>

GetVariants ==
    /\ sret.op = "none"
    /\ page.group = "variants"
    /\ sret' = Call("get_variants", ParentName.s, "Variant", Ok(get_variants(page)[2]))
    /\ UNCHANGED <<page, exceptScrape>>

\* get_method_group on the container after the heading, read with the tag
\* of the method headings of that group
GetMethodGroup ==
    /\ sret.op = "none"
    /\ \E g \in ContainerGroups :
        /\ page.group = g[1]
        /\ LET r == get_method_group(None, page.chain[1], "Method", g[2])
           IN sret' = Call("get_method_group", ParentName.s, "Method",
                           Ok(IF r.some THEN <<r.val>> ELSE <<>>))
    /\ UNCHANGED <<page, exceptScrape>>

GetMembers(ty) ==
    /\ sret.op = "none"
    /\ page.kind = "module"
    /\ sret' = Call("get_members", ParentName.s, ty, Ok(get_members(page, ty)))
    /\ UNCHANGED <<page, exceptScrape>>

GetIdPart(i) ==
    /\ sret.op = "none"
    /\ page.kind = "element"
    /\ sret' = Call("get_id_part", "", IF i = 0 THEN "0" ELSE "1",
                    Ok(get_id_part(page.chain[1].id, i)))
    /\ UNCHANGED <<page, exceptScrape>>

ScrapeNext ==
    \/ ParseItemDoc
    \/ ParseModuleDoc
    \/ \E ty \in MemberTypes : ParseMemberDoc(ty)
    \/ ParserFindMember
    \/ GetFields
    \/ GetVariants
    \/ GetMethodGroup
    \/ \E ty \in {"Struct", "Function"} : GetMembers(ty)
    \/ \E i \in {0, 1} : GetIdPart(i)

ScrapeSpec == ScrapeInit /\ [][ScrapeNext]_vars

(***************************************************************************)
(* Properties of the page scraper, checked under ScrapeSpec.               *)
(***************************************************************************)
\* the members of the groups a sub-extraction returned (it returns at most
\* one group)
MembersOf(groups) == IF Len(groups) = 0 THEN <<>> ELSE groups[1].members

\* an id attribute from which a member name is read
HasName(id) == id.some /\ StrFind(id.val, ".").some

IsFieldHeading(e) == e.tag = "span" /\ e.class = "structfield"
IsVariantHeading(e) == e.tag = "div" /\ e.class = "variant"
IsDocblock(e) == e.tag = "div" /\ e.class = "docblock"

\* the nodes that are neither member headings nor div blocks end a chain
EndsChain(e) == ~IsFieldHeading(e) /\ e.tag # "div"

\* the place of the node that ends the chain, after the last node if none
ChainEnd(chain) ==
    MinOf({i \in 1..Len(chain) : EndsChain(chain[i])} \cup {Len(chain) + 1})

\* the places of the member headings of a chain that carry a name
NamedHeadings(chain, IsHeading(_)) ==
    {i \in 1..(ChainEnd(chain) - 1) : IsHeading(chain[i]) /\ HasName(chain[i].id)}

\* the places of the named member headings among the children of the
\* container of a method group whose headings are <tag>.method
NamedMethods(children, tag) ==
    {i \in 1..Len(children) :
        /\ HasName(children[i].id)
        /\ \/ children[i].tag = tag /\ children[i].class = "method"
           \/ /\ children[i].tag = "details"
              /\ children[i].class = "method-toggle"
              /\ children[i].decl = "code-header"
              /\ tag = "h4"}

\* the Docs are those of the headings at these places, in document order
DocsOfHeadings(m, H) ==
    /\ Len(m) = Cardinality(H)
    /\ \A k \in 1..Len(m) :
        /\ m[k].definition.some
        /\ m[k].definition.val \in H
        /\ \A j \in 1..(k - 1) : m[j].definition.val < m[k].definition.val

\* C14: in the extraction of fields, of variants and of a method group,
\* every member heading that carries a name yields exactly one Doc, in
\* document order, also when it is the last node of its chain or container
C14_EveryNamedMemberYieldsADoc ==
    /\ sret.op = "get_fields" =>
        DocsOfHeadings(MembersOf(sret.ret.val), NamedHeadings(page.chain, IsFieldHeading))
    /\ sret.op = "get_variants" =>
        DocsOfHeadings(MembersOf(sret.ret.val), NamedHeadings(page.chain, IsVariantHeading))
    /\ sret.op = "get_method_group" =>
        \A g \in ContainerGroups :
            page.group = g[1] =>
                Len(MembersOf(sret.ret.val))
                    = Cardinality(NamedMethods(page.chain[1].children, g[2]))

FieldHeading == Node("span", "structfield", Some("structfield.a"), "code")

\* field1, description1, field2, description2, field3
ThreeFields == <<FieldHeading, Docblock, FieldHeading, Docblock, FieldHeading>>

\* the description block of the field heading at place i: the first
\* docblock after it before the next field heading and the end of the chain
DescriptionOf(chain, i) ==
    LET D == {j \in (i + 1)..(ChainEnd(chain) - 1) :
                /\ IsDocblock(chain[j])
                /\ \A k \in (i + 1)..(j - 1) : ~IsFieldHeading(chain[k])}
    IN IF D = {} THEN None ELSE Some(MinOf(D))

\* C15: the chain field1, description1, field2, description2, field3 gives
\* three field Docs, the first two with their description and the third
\* with none; the description of a field is the description block that
\* follows its heading before the next heading, None if there is none; a
\* description block met while no name is pending creates no Doc
C15_FieldDescriptions ==
    sret.op = "get_fields" =>
        LET m == MembersOf(sret.ret.val)
        IN /\ page.chain = ThreeFields =>
                /\ Len(m) = 3
                /\ m[1].description.some /\ m[1].description.val = 2
                /\ m[2].description.some /\ m[2].description.val = 4
                /\ ~m[3].description.some
           /\ \A k \in 1..Len(m) :
                /\ m[k].definition.some
                /\ LET d == DescriptionOf(page.chain, m[k].definition.val)
                   IN /\ m[k].description.some = d.some
                      /\ d.some => m[k].description.val = d.val
           /\ Len(m) <= Cardinality(NamedHeadings(page.chain, IsFieldHeading))

\* C16: every entry of the groups of a Doc of parse_item_doc or of
\* parse_module_doc has at least one group, and every group at least one
\* member; a Doc of parse_member_doc has no groups
C16_NoEmptyGroups ==
    /\ sret.op \in {"parse_item_doc", "parse_module_doc"} =>
        /\ sret.ret.ok
        /\ \A k \in 1..Len(sret.ret.val.groups) :
            LET groups == sret.ret.val.groups[k][2]
            IN /\ Len(groups) >= 1
               /\ \A j \in 1..Len(groups) : Len(groups[j].members) >= 1
    /\ sret.op = "parse_member_doc" /\ sret.ret.ok => sret.ret.val.groups = <<>>

\* a struct page whose fields heading is followed by a description block
\* only: the Doc has no entry for fields
C16_Witness ==
    /\ sret.op = "parse_item_doc"
    /\ page.group = "fields"
    /\ page.chain = <<Docblock>>
    /\ sret.ret.ok
    /\ sret.ret.val.groups = <<>>

\* the elements of the page that have the id parse_member_doc asks for
MemberHits ==
    SelectSeq(ElementsWithId(page.chain, 1, None),
              LAMBDA e : e[1].id.val = get_member_id(sret.ty, "a"))

\* C17: parse_member_doc fails, naming the member, when no element has the
\* id <token of ty>.<last part of the name> and when the element has no
\* declaration (no code, no h4.code-header); otherwise it succeeds with a
\* definition; a member without description block gets description None
C17_MemberDocOutcome ==
    sret.op = "parse_member_doc" =>
        IF Len(MemberHits) = 0
        THEN IsErr(sret.ret, "Could not find member p::F::a")
        ELSE IF MemberHits[1][1].decl \notin {"code", "code-header"}
        THEN IsErr(sret.ret, "The member p::F::a does not have a definition")
        ELSE /\ sret.ret.ok
             /\ sret.ret.val.definition.some
             /\ page.group \in {"fields", "variants"} =>
                    LET i == MemberHits[1][2]
                    IN (i = Len(page.chain) \/ ~IsDocblock(page.chain[i + 1]))
                            => ~sret.ret.val.description.some

\* the Docs of a member list of a module page
RECURSIVE ExpectedMembers(_, _)
ExpectedMembers(content, ty) ==
    IF Len(content) = 0 THEN <<>>
    ELSE <<[name |-> "p::F::" \o Head(content).name, ty |-> ty,
            description |-> Some(Head(content).text), definition |-> None,
            groups |-> <<>>]>>
            \o ExpectedMembers(Tail(content), ty)

IsDigits(s) == Len(s) > 0 /\ \A i \in 1..Len(s) : SubSeq(s, i, i) = "1"

\* the text without its last -<digits>, if it ends with one
WithoutSuffix(s) ==
    LET C == {i \in 1..Len(s) : SubSeq(s, i, i) = "-" /\ IsDigits(SubSeq(s, i + 1, Len(s)))}
    IN IF C = {} THEN s ELSE SubSeq(s, 1, MinOf(C) - 1)

\* C19: the name read from an id <token>.<name>-<digits> is <name>; from an
\* id <token>.<name> that does not end with -<digits> it is all the text
\* after the first '.'; without an id, or without a '.' in it, there is none
C19_SuffixStripped ==
    (sret.op = "get_id_part" /\ sret.ty = "1") =>
        LET id == page.chain[1].id
            r == sret.ret.val
        IN IF ~id.some THEN ~r.some
           ELSE LET rest == AfterFirst(id.val, ".")
                IN IF ~rest.some THEN ~r.some
                   ELSE r.some /\ r.val = WithoutSuffix(rest.val)

(***************************************************************************)
(* viewer/tui/mod.rs: resolve_doc_link.  lcall holds the call (doc_name,   *)
(* doc_ty, link), the locals of the function (the parts still to walk, the *)
(* fragment, the cursor ty and name) and, once it returned, the result.    *)
(***************************************************************************)
\* str::split(c)
RECURSIVE Split(_, _)
Split(s, c) ==
    LET rest == AfterFirst(s, c)
    IN IF rest.some THEN <<BeforeFirst(s, c)>> \o Split(rest.val, c) ELSE <<s>>

\* parse_url_part(s, suffix), suffix "" for None: the two pieces of s
\* without the suffix, if '.' splits it into exactly two
parse_url_part(s, suffix) ==
    IF ~StrEndsWith(s, suffix) THEN None
    ELSE LET pieces == Split(SubSeq(s, 1, Len(s) - Len(suffix)), ".")
         IN IF Len(pieces) = 2 THEN Some(pieces) ELSE None

\* Fqn::parent of the name held by the cursor: Ok(Option<String>) or a panic
Fqn_parent(s) ==
    LET r == Name_parent(Name_from(s))
    IN IF ~r.ok THEN Panic
       ELSE IF r.val.some THEN Ok(Some(r.val.val.s)) ELSE Ok(None)

\* ChildOf that forgets the name the segment is appended to
ChildOf_alone(nm, s) == Some(s)

\* name.child(s) for Some(name), s.into() for None
ChildOf(nm, s) == IF nm.some THEN Some(Name_child(Name_from(nm.val), s).val.s) ELSE Some(s)

\* LinkParts that keeps the parts "."
LinkParts_keeps_dot(link) == SelectSeq(Split(link, "/"), LAMBDA part : part # "")

\* the parts of the link: split at '/', without the empty ones and "."
LinkParts(link) == SelectSeq(Split(link, "/"), LAMBDA part : part # "" /\ part # ".")

\* the seed that is the parent of the item whatever the link
Seed_from_parent_always(doc_name, doc_ty, parts) ==
    IF doc_ty # "Module"
    THEN LET r == Fqn_parent(doc_name)
         IN IF r.ok THEN Ok([ty |-> None, name |-> r.val]) ELSE Panic
    ELSE Ok([ty |-> Some(doc_ty), name |-> Some(doc_name)])

\* the first value of the cursor (ty, name)
Seed(doc_name, doc_ty, parts) ==
    IF doc_ty # "Module" /\ Len(parts) > 0
    THEN LET r == Fqn_parent(doc_name)
         IN IF r.ok THEN Ok([ty |-> None, name |-> r.val]) ELSE Panic
    ELSE Ok([ty |-> Some(doc_ty), name |-> Some(doc_name)])

\* the items whose page holds the link
DocNames == {"p", "p::F", "p::F::m", "pkg::Foo::method"}
DocTypes == {"Module", "Struct", "Method"}

\* the parts a link is made of
PartPool == {"..", ".", "", "index.html", "m", "struct.S.html", "x.S.html", "Bar.html"}
FragmentPool == {"", "#method.g", "#sec", "#x.g", "#method."}

RECURSIVE Join(_)
Join(parts) ==
    IF Len(parts) = 0 THEN ""
    ELSE IF Len(parts) = 1 THEN parts[1]
    ELSE (parts[1] \o "/") \o Join(Tail(parts))

Links == {Join(parts) \o f : parts \in SeqsUpTo(PartPool, MaxParts), f \in FragmentPool}

LinkInit ==
    /\ name = Name_from("")
    /\ nop = NoNameCall
    /\ file = NoFile
    /\ index = NoCrates
    /\ pc = "raw"
    /\ iret = NoCall
    /\ lines = <<>>
    /\ lineno = 0
    /\ json = None
    /\ finished = FALSE
    /\ lret = NoLoadCall
    /\ page = NoPage
    /\ sret = NoScrapeCall
    /\ mcall = NoMainCall
    /\ view = NoView
    /\ walk = NoWalk
    /\ \E doc_name \in DocNames, doc_ty \in DocTypes, link \in Links :
        lcall = [NoLinkCall EXCEPT !.op = "call", !.doc_name = doc_name,
                                   !.doc_ty = doc_ty, !.link = link]

\* the cursor is lost with the error or the panic that ends the call
Failed(r) == [lcall EXCEPT !.op = "done", !.ret = r]

\* resolve_doc_link, up to the loop: link and fragment, the parts, the seed
SplitLink ==
    /\ lcall.op = "call"
    /\ LET path == BeforeFirst(lcall.link, "#")
           parts == LinkParts(path)
           seed == Seed(lcall.doc_name, lcall.doc_ty, parts)
       IN lcall' = IF ~seed.ok THEN Failed(seed)
                   ELSE [lcall EXCEPT !.op = "walk",
                                      !.parts = parts,
                                      !.fragment = AfterFirst(lcall.link, "#"),
                                      !.ty = seed.val.ty,
                                      !.name = seed.val.name]
    /\ UNCHANGED exceptLink

\* one turn of `for part in parts`
WalkPart ==
    /\ lcall.op = "walk"
    /\ Len(lcall.parts) > 0
    /\ LET part == Head(lcall.parts)
           rest == [lcall EXCEPT !.parts = Tail(lcall.parts)]
       IN lcall' =
            IF part = ".."
            THEN IF ~lcall.name.some THEN Failed(Err("Exceeded root level"))
                 ELSE LET r == Fqn_parent(lcall.name.val)
                      IN IF ~r.ok THEN Failed(r)
                         ELSE [rest EXCEPT !.ty = None, !.name = r.val]
            ELSE IF part = "index.html" THEN rest
            ELSE LET u == parse_url_part(part, ".html")
                 IN IF u.some
                    THEN LET t == ItemType_from_str(u.val[1])
                         IN IF ~t.ok THEN Failed(t)
                            ELSE [rest EXCEPT !.ty = Some(t.val),
                                              !.name = ChildOf(lcall.name, u.val[2])]
                    ELSE [rest EXCEPT !.ty = Some("Module"),
                                      !.name = ChildOf(lcall.name, part)]
    /\ UNCHANGED exceptLink

\* after the loop: the fragment, then the result
ResolveReturn ==
    /\ lcall.op = "walk"
    /\ Len(lcall.parts) = 0
    /\ LET u == IF lcall.fragment.some THEN parse_url_part(lcall.fragment.val, "")
                ELSE None
           t == IF u.some THEN ItemType_from_str(u.val[1]) ELSE Ok("-")
           ty == IF u.some THEN Some(t.val) ELSE lcall.ty
           nm == IF u.some THEN ChildOf(lcall.name, u.val[2]) ELSE lcall.name
       IN lcall' =
            IF ~t.ok THEN Failed(t)
            ELSE IF ~nm.some THEN Failed(Err("Cannot handle link to root"))
            ELSE [lcall EXCEPT !.op = "done", !.ty = ty, !.name = nm,
                               !.ret = Ok(<<ty, nm.val>>)]
    /\ UNCHANGED exceptLink

LinkNext ==
    \/ SplitLink
    \/ WalkPart
    \/ ResolveReturn

LinkSpec == LinkInit /\ [][LinkNext]_vars

(***************************************************************************)
(* Properties of resolve_doc_link, checked under LinkSpec.                 *)
(***************************************************************************)
\* the cursor of the state is (ty, name), ty and name Options
CursorIs(c, ty, nm) ==
    /\ c.ty.some = ty.some
    /\ ty.some => c.ty.val = ty.val
    /\ c.name.some = nm.some
    /\ nm.some => c.name.val = nm.val

\* C20 as stated: for every relative link, with path parts or without, the
\* cursor is seeded with the parent of the current item and no type when the
\* item is no Module, and with the item itself and type Module when it is
C20_SeedFromParent ==
    [][(lcall.op = "call" /\ lcall'.op = "walk") =>
        IF lcall.doc_ty # "Module"
        THEN CursorIs(lcall', None, Fqn_parent(lcall.doc_name).val)
        ELSE CursorIs(lcall', Some("Module"), Some(lcall.doc_name))]_vars

\* C20, amended: the cursor is seeded with the parent of the current item
\* and no type when the item is no Module and the link has at least one
\* path part; otherwise (a Module, or a link of a fragment only or of no
\* part at all) with the current item itself and its type
C20_SeedFromParentIfParts ==
    [][(lcall.op = "call" /\ lcall'.op = "walk") =>
        IF lcall.doc_ty # "Module" /\ Len(lcall'.parts) > 0
        THEN CursorIs(lcall', None, Fqn_parent(lcall.doc_name).val)
        ELSE CursorIs(lcall', Some(lcall.doc_ty), Some(lcall.doc_name))]_vars

\* a link of a fragment only on the page of a struct: the walk is seeded
\* with the struct and its type
C20_Witness ==
    /\ lcall.op = "walk"
    /\ lcall.doc_name = "p::F"
    /\ lcall.doc_ty = "Struct"
    /\ lcall.link = "#method.g"
    /\ lcall.parts = <<>>
    /\ lcall.fragment.some
    /\ CursorIs(lcall, Some("Struct"), Some("p::F"))

\* a cursor (type, name), or no cursor after a failure
Cursor(ty, nm) == [ok |-> TRUE, ty |-> ty, name |-> nm]
NoCursor == [ok |-> FALSE, ty |-> None, name |-> None]

\* what one path part does to the cursor: ".." moves to the parent and
\* clears the type, "index.html" does nothing, T.N.html sets the type named
\* by T and appends N, any other part is appended as a module
PartEffect(c, part) ==
    IF ~c.ok THEN c
    ELSE IF part = ".."
    THEN IF c.name.some THEN Cursor(None, Fqn_parent(c.name.val).val) ELSE NoCursor
    ELSE IF part = "index.html" THEN c
    ELSE LET pieces == IF StrEndsWith(part, ".html")
                       THEN Split(SubSeq(part, 1, Len(part) - 5), ".")
                       ELSE <<>>
             child(s) == IF c.name.some THEN Some((c.name.val \o "::") \o s) ELSE Some(s)
         IN IF Len(pieces) = 2
            THEN IF ItemType_from_str(pieces[1]).ok
                 THEN Cursor(Some(ItemType_from_str(pieces[1]).val), child(pieces[2]))
                 ELSE NoCursor
            ELSE Cursor(Some("Module"), child(part))

\* the parts one after the other, from the left
RECURSIVE PartsEffect(_, _)
PartsEffect(c, parts) ==
    IF Len(parts) = 0 THEN c
    ELSE PartsEffect(PartEffect(c, Head(parts)), Tail(parts))

\* the path parts of the link of the call: empty parts and "." removed
PathParts ==
    SelectSeq(Split(BeforeFirst(lcall.link, "#"), "/"),
              LAMBDA part : part # "" /\ part # ".")

\* the cursor the walk of the call starts with
FirstCursor ==
    LET seed == Seed(lcall.doc_name, lcall.doc_ty, PathParts)
    IN Cursor(seed.val.ty, seed.val.name)

\* C21: the walk takes the path parts (empty parts and "." removed) from the
\* left, each part changing the cursor as PartEffect says: while n parts are
\* left the cursor is the effect of the parts before them, and a link
\* without fragment is resolved to the final cursor
C21_PartsLeftToRight ==
    /\ lcall.op = "walk" =>
        LET n == Len(PathParts) - Len(lcall.parts)
            c == PartsEffect(FirstCursor, SubSeq(PathParts, 1, n))
        IN /\ n >= 0
           /\ lcall.parts = SubSeq(PathParts, n + 1, Len(PathParts))
           /\ c.ok
           /\ CursorIs(lcall, c.ty, c.name)
    /\ (lcall.op = "done" /\ StrFind(lcall.link, "#").some = FALSE) =>
        LET c == PartsEffect(FirstCursor, PathParts)
        IN (c.ok /\ c.name.some) =>
            /\ lcall.ret.ok
            /\ lcall.ret.val[1].some = c.ty.some
            /\ c.ty.some => lcall.ret.val[1].val = c.ty.val
            /\ lcall.ret.val[2] = c.name.val

\* "m/struct.S.html" seen from the module p: first m, then struct.S.html
C21_Witness ==
    /\ lcall.op = "done"
    /\ lcall.doc_name = "p"
    /\ lcall.doc_ty = "Module"
    /\ lcall.link = "m/struct.S.html"
    /\ lcall.ret.ok
    /\ lcall.ret.val[1].some
    /\ lcall.ret.val[1].val = "Struct"
    /\ lcall.ret.val[2] = "p::m::S"

\* C22: the link "../Bar.html" on the page of the method pkg::Foo::method
\* is resolved to the name pkg::Bar with no type
C22_ParentThenBar ==
    (/\ lcall.op = "done"
     /\ lcall.doc_name = "pkg::Foo::method"
     /\ lcall.doc_ty = "Method"
     /\ lcall.link = "../Bar.html") =>
        /\ lcall.ret.ok
        /\ ~lcall.ret.val[1].some
        /\ lcall.ret.val[2] = "pkg::Bar"

\* C23: a ".." met while the cursor has no name, and a walk that ends with
\* no name, make resolve_doc_link return a failure; it never panics and
\* never returns a link without name or with an empty name
C23_RootIsReported ==
    lcall.op = "done" =>
        /\ ~(~lcall.ret.ok /\ lcall.ret.val = Panic.val)
        /\ lcall.ret.ok => Len(lcall.ret.val[2]) > 0
        /\ ~PartsEffect(FirstCursor, PathParts).ok => ~lcall.ret.ok

MaxSources == 2     \* sources given to main

MainKeywords == {"k", "k::x", "k::S::m"}

SourceFacts ==
    {f \in [has : BOOLEAN, allhtml : {"ok", "error"}, item : BOOLEAN,
            module : BOOLEAN, parent : BOOLEAN, member : BOOLEAN] :
        /\ ~f.has => (f.allhtml = "ok" /\ ~f.item /\ ~f.module /\ ~f.parent)
        /\ f.allhtml = "error" => (~f.item /\ ~f.parent)
        /\ f.member => f.parent}

\* main::find_crate: the first source that has the crate, 0 if none has it
find_crate(sources) ==
    LET having == {i \in 1..Len(sources) : sources[i].has}
    IN IF having = {} THEN 0
       ELSE CHOOSE i \in having : \A j \in having : i <= j

\* Crate::find_item: all.html is read only for a name that has a rest
Crate_reads_all_html(n) == Name_rest(n).val.some

Crate_find_item(src, n, listed) ==
    IF ~Crate_reads_all_html(n) THEN "None"
    ELSE IF src.allhtml = "error" THEN "Err"
    ELSE IF listed THEN "Some" ELSE "None"

Crate_find_module(src, n) == IF src.module THEN "Some" ELSE "None"

Crate_find_member(src, n) ==
    LET parent == Name_parent(n).val
    IN IF ~parent.some THEN "None"
       ELSE LET item == Crate_find_item(src, parent.val, src.parent)
            IN IF item = "Err" THEN "panic"
               ELSE IF item = "Some" /\ src.member THEN "Some" ELSE "None"

MainInit ==
    /\ name = Name_from("")
    /\ nop = NoNameCall
    /\ file = NoFile
    /\ index = NoCrates
    /\ pc = "raw"
    /\ iret = NoCall
    /\ lines = <<>>
    /\ lineno = 0
    /\ json = None
    /\ finished = FALSE
    /\ lret = NoLoadCall
    /\ page = NoPage
    /\ sret = NoScrapeCall
    /\ lcall = NoLinkCall
    /\ view = NoView
    /\ walk = NoWalk
    /\ \E keyword \in MainKeywords, sources \in SeqsUpTo(SourceFacts, MaxSources),
          no_search \in BOOLEAN :
        mcall = [NoMainCall EXCEPT !.pc = "find_crate", !.keyword = keyword,
                                   !.sources = sources, !.no_search = no_search,
                                   !.exact = "pending", !.ret = "running"]

\* find_doc: the crate is taken from the first source that has it
FindCrate ==
    /\ mcall.pc = "find_crate"
    /\ LET k == find_crate(mcall.sources)
       IN mcall' = IF k = 0
                   THEN [mcall EXCEPT !.pc = "main", !.exact = "None"]
                   ELSE [mcall EXCEPT !.pc = "find_item", !.krate = k]
    /\ UNCHANGED exceptMain

\* find_doc: krate.find_item(&fqn)?
FindItem_then_module ==
    /\ mcall.pc = "find_item"
    /\ LET src == mcall.sources[mcall.krate]
           n == Name_from(mcall.keyword)
           r == Crate_find_item(src, n, src.item)
           t == IF Crate_reads_all_html(n) THEN <<"all.html">> ELSE <<>>
       IN mcall' = IF r = "Err"
                   THEN [mcall EXCEPT !.pc = "main", !.exact = "Err",
                                      !.trace = @ \o t]
                   ELSE [mcall EXCEPT !.pc = "find_module", !.hit = "none",
                                      !.trace = @ \o t]
    /\ UNCHANGED exceptMain

FindItem ==
    /\ mcall.pc = "find_item"
    /\ LET src == mcall.sources[mcall.krate]
           n == Name_from(mcall.keyword)
           r == Crate_find_item(src, n, src.item)
           t == IF Crate_reads_all_html(n) THEN <<"all.html">> ELSE <<>>
       IN mcall' = IF r = "Err"
                   THEN [mcall EXCEPT !.pc = "main", !.exact = "Err",
                                      !.trace = @ \o t]
                   ELSE IF r = "Some"
                   THEN [mcall EXCEPT !.pc = "load_doc", !.hit = "item",
                                      !.trace = @ \o t]
                   ELSE [mcall EXCEPT !.pc = "find_module", !.trace = @ \o t]
    /\ UNCHANGED exceptMain

\* find_doc: .or_else(|| krate.find_module(&fqn))
FindModule ==
    /\ mcall.pc = "find_module"
    /\ LET src == mcall.sources[mcall.krate]
           r == Crate_find_module(src, Name_from(mcall.keyword))
       IN mcall' = IF r = "Some"
                   THEN [mcall EXCEPT !.pc = "load_doc", !.hit = "module",
                                      !.trace = @ \o <<"index.html">>]
                   ELSE [mcall EXCEPT !.pc = "find_member",
                                      !.trace = @ \o <<"index.html">>]
    /\ UNCHANGED exceptMain

\* find_doc: .or_else(|| krate.find_member(&fqn))
FindMember ==
    /\ mcall.pc = "find_member"
    /\ LET src == mcall.sources[mcall.krate]
           n == Name_from(mcall.keyword)
           r == Crate_find_member(src, n)
           parent == Name_parent(n).val
           t == IF parent.some /\ Crate_reads_all_html(parent.val)
                THEN <<"parent">> ELSE <<>>
       IN mcall' = IF r = "panic"
                   THEN [mcall EXCEPT !.pc = "done", !.ret = "panic",
                                      !.trace = @ \o t]
                   ELSE IF r = "Some"
                   THEN [mcall EXCEPT !.pc = "load_doc", !.hit = "member",
                                      !.trace = @ \o t]
                   ELSE [mcall EXCEPT !.pc = "main", !.exact = "None",
                                      !.trace = @ \o t]
    /\ UNCHANGED exceptMain

\* find_doc: .map(|i| i.load_doc()).transpose(); the page may fail to parse
LoadDoc ==
    /\ mcall.pc = "load_doc"
    /\ \E loaded \in BOOLEAN :
        mcall' = [mcall EXCEPT !.pc = "main",
                               !.exact = IF loaded THEN "Some" ELSE "Err",
                               !.trace = @ \o <<"load">>]
    /\ UNCHANGED exceptMain

\* main: an exact match is shown, an error of find_doc is returned
MainExact ==
    /\ mcall.pc = "main"
    /\ mcall.exact \in {"Some", "Err"}
    /\ mcall' = [mcall EXCEPT !.pc = "done",
                              !.ret = IF mcall.exact = "Some" THEN "doc"
                                      ELSE "error",
                              !.msg = IF mcall.exact = "Some" THEN ""
                                      ELSE "find_doc"]
    /\ UNCHANGED exceptMain

\* main: search_doc, with what search_item and the second find_doc gave
SearchDoc ==
    /\ mcall.pc = "main"
    /\ mcall.exact = "None"
    /\ ~mcall.no_search
    /\ \E search \in {"no-item", "item-doc", "item-no-doc", "cancelled"} :
        mcall' = [mcall EXCEPT
            !.pc = "done", !.search = search,
            !.trace = @ \o <<"search-index">>,
            !.ret = CASE search = "item-doc" -> "doc"
                      [] search = "cancelled" -> "cancelled"
                      [] OTHER -> "error",
            !.msg = CASE search = "no-item" ->
                           "Could not find documentation for " \o mcall.keyword
                      [] search = "item-no-doc" ->
                           "Could not find documentation for item"
                      [] OTHER -> ""]
    /\ UNCHANGED exceptMain

\* main: anyhow::bail! when searching is disabled
Bail ==
    /\ mcall.pc = "main"
    /\ mcall.exact = "None"
    /\ mcall.no_search
    /\ mcall' = [mcall EXCEPT
            !.pc = "done", !.ret = "error",
            !.msg = "Could not find documentation for " \o mcall.keyword]
    /\ UNCHANGED exceptMain

MainNext ==
    \/ FindCrate
    \/ FindItem
    \/ FindModule
    \/ FindMember
    \/ LoadDoc
    \/ MainExact
    \/ SearchDoc
    \/ Bail

MainSpec == MainInit /\ [][MainNext]_vars

\* the steps of a run, in the order they were made
Read(step) == \E i \in 1..Len(mcall.trace) : mcall.trace[i] = step
ReadBefore(a, b) ==
    \A j \in 1..Len(mcall.trace) :
        mcall.trace[j] = b => \E i \in 1..(j - 1) : mcall.trace[i] = a

\* what the directory of the chosen source holds for the keyword
HasLocalName(kw) == \E i \in 1..Len(kw) : SubSeq(kw, i, i) = ":"
ItemListed(src, kw) == HasLocalName(kw) /\ src.item
MemberOfParent(src, kw) ==
    /\ HasLocalName(kw)
    /\ HasLocalName(Name_parent(Name_from(kw)).val.val.s)
    /\ src.parent
    /\ src.member

\* C25: the crate is taken from the first source that has it; there the
\* keyword is looked up as an item in all.html, as a module (index.html) only
\* if that missed, and as a member of its parent only if that missed too, and
\* the first hit is the one loaded; the search index is read only if no exact
\* match was found and searching is enabled; with searching disabled the miss
\* is reported as "Could not find documentation for <keyword>"; if no source
\* has the crate, find_doc gives no match, reads nothing and raises no error.
C25_LookupOrder ==
    mcall.pc \notin {"none", "find_crate"} =>
        LET kw == mcall.keyword
            k == mcall.krate
            src == mcall.sources[k]
            nocrate == \A i \in 1..Len(mcall.sources) : ~mcall.sources[i].has
        IN /\ nocrate =>
                /\ k = 0
                /\ mcall.exact = "None"
                /\ \A i \in 1..Len(mcall.trace) :
                        mcall.trace[i] = "search-index"
           /\ k # 0 =>
                /\ src.has
                /\ \A j \in 1..(k - 1) : ~mcall.sources[j].has
                /\ Read("index.html") =>
                        /\ ~ItemListed(src, kw)
                        /\ HasLocalName(kw) => ReadBefore("all.html", "index.html")
                /\ Read("parent") =>
                        /\ ~ItemListed(src, kw)
                        /\ ~src.module
                        /\ ReadBefore("index.html", "parent")
                /\ Read("load") =>
                        /\ mcall.hit =
                              IF ItemListed(src, kw) THEN "item"
                              ELSE IF src.module THEN "module"
                              ELSE "member"
                        /\ mcall.hit = "member" => MemberOfParent(src, kw)
                        /\ ~Read("search-index")
                /\ Read("search-index") =>
                        /\ ~ItemListed(src, kw)
                        /\ ~src.module
                        /\ ~MemberOfParent(src, kw)
                        /\ ReadBefore("index.html", "search-index")
           /\ Read("search-index") => (~mcall.no_search /\ mcall.exact = "None")
           /\ (mcall.pc = "done" /\ mcall.no_search /\ mcall.exact = "None") =>
                /\ mcall.ret = "error"
                /\ mcall.msg = "Could not find documentation for " \o kw
                /\ ~Read("search-index")

\* a member of the second source's crate was found and loaded after the item
\* and the module lookup missed
C25_Witness ==
    /\ mcall.pc = "done"
    /\ mcall.krate = 2
    /\ mcall.hit = "member"
    /\ mcall.ret = "doc"
    /\ mcall.trace = <<"all.html", "index.html", "parent", "load">>

(***************************************************************************)
(* Path inheritance in Index::find, checked under IndexSpec.               *)
(***************************************************************************)
\* the path in force at item j of package k, read from the left: the package
\* name before the first item, then the last non-empty path met
RECURSIVE Inherited(_, _, _)
Inherited(items, k, j) ==
    IF j = 0 THEN k
    ELSE IF items[j].path # "" THEN items[j].path
    ELSE Inherited(items, k, j - 1)

InheritedEntry(k, j) ==
    LET item == index[k].items[j]
        path == Inherited(index[k].items, k, j)
    IN [name |-> item.name,
        path |-> IF item.parent.some
                 THEN (path \o "::") \o index[k].paths[item.parent.val + 1][2]
                 ELSE path,
        description |-> item.desc]

\* C26: in the results of find, an item is filed under its own path or, if
\* that is empty, under the nearest non-empty path before it in the same
\* package (that of an associated type included), or under the package name if
\* there is none; no associated type is returned, and no path of another
\* package is inherited, whatever the order of the packages.
C26_PathInheritance ==
    (iret.op = "find" /\ iret.ret.ok) =>
        /\ \A k \in Crates : \A j \in 1..Len(index[k].items) :
            (index[k].items[j].ty # 16 /\ index[k].items[j].name = iret.keyword)
                => InheritedEntry(k, j) \in Range(iret.ret.val)
        /\ \A r \in Range(iret.ret.val) :
            \E k \in Crates : \E j \in 1..Len(index[k].items) :
                /\ index[k].items[j].ty # 16
                /\ r = InheritedEntry(k, j)

\* an item without path after an associated type that has one, and an item
\* without path that opens the other package
C26_Witness ==
    /\ iret.op = "find"
    /\ iret.keyword = "Foo"
    /\ Len(index["p"].items) = 2
    /\ index["p"].items[1].ty = 16
    /\ index["p"].items[1].path = "p::m"
    /\ index["p"].items[2] =
            [ty |-> 3, name |-> "Foo", path |-> "", desc |-> "d", parent |-> None]
    /\ iret.ret = Ok(<<[name |-> "Foo", path |-> "p::m", description |-> "d"]>>)

(***************************************************************************)
(* find_member and parse_member_doc, checked under ScrapeSpec.             *)
(***************************************************************************)
AllItemTypes ==
    {"Module", "ExternCrate", "Import", "Struct", "Union", "Enum", "Function",
     "Typedef", "Static", "Trait", "Impl", "TyMethod", "Method", "StructField",
     "Variant", "Macro", "Primitive", "AssocType", "Constant", "AssocConst",
     "ForeignType", "Keyword", "OpaqueTy", "ProcAttribute", "ProcDerive",
     "TraitAlias"}

FiveMemberTypes == {"StructField", "Variant", "AssocType", "AssocConst", "Method"}

\* the ids of the elements of the page
PageIds == {e[1].id.val : e \in Range(ElementsWithId(page.chain, 1, None))}

\* C27: when find_member(name) returns Some(ty), ty is one of StructField,
\* Variant, AssocType, AssocConst and Method, the page has an element with
\* the id "<token of ty>.<last segment of name>" and parse_member_doc(name, ty)
\* does not fail with "Could not find member"; when it returns None the page
\* has no element with such an id for any of the five types; and the token
\* of every item type parses back to that item type.
C27_FindMemberAgrees ==
    /\ \A ty \in AllItemTypes :
        /\ ItemType_from_str(get_item_id(ty)).ok
        /\ ItemType_from_str(get_item_id(ty)).val = ty
    /\ sret.op = "find_member" =>
        /\ (sret.ret.ok /\ sret.ret.val.some) =>
            LET ty == sret.ret.val.val
                doc == parse_member_doc(page, MemberName, ty)
            IN /\ ty \in FiveMemberTypes
               /\ get_member_id(ty, "a") \in PageIds
               /\ IF doc.ok THEN TRUE
                  ELSE doc.val # "Could not find member " \o MemberName.s
        /\ (sret.ret.ok /\ ~sret.ret.val.some) =>
            \A ty \in FiveMemberTypes : get_member_id(ty, "a") \notin PageIds

\* an associated type is found on the page of a trait
C27_Witness ==
    /\ sret.op = "find_member"
    /\ sret.ret.ok
    /\ sret.ret.val.some
    /\ sret.ret.val.val = "AssocType"
    /\ parse_member_doc(page, MemberName, "AssocType").ok

(***************************************************************************)
(* The sibling walks of the scraper, one loop iteration at a time.  The    *)
(* siblings are the nodes of page.chain; a cursor is a place in the chain, *)
(* 0 for None.                                                             *)
(***************************************************************************)
\* NodeRef::next_sibling / previous_sibling seen from the place before or
\* after: the node at place i, None beyond the ends of the chain
Sibling(chain, i) == IF 1 <= i /\ i <= Len(chain) THEN i ELSE 0

\* get_fields / get_variants: `next` after the body of the loop, and whether
\* the body broke out of it
Members_next(chain, i, stop) ==
    IF stop THEN [cursor |-> i, done |-> TRUE]
    ELSE [cursor |-> Sibling(chain, i + 1), done |-> FALSE]

\* get_method_groups with a cursor that is read, not taken
MethodGroups_next_not_taken(chain, i) ==
    LET subheading == chain[i]
    IN IF is_element(subheading, "h3") /\ has_class(subheading, "impl")
       THEN IF Sibling(chain, i + 1) # 0 THEN Sibling(chain, i + 2) ELSE i
       ELSE IF is_element(subheading, "details") THEN Sibling(chain, i + 1)
       ELSE i

\* get_method_groups: `next` after the body of the loop; next.take() left
\* None in it, and only the two inner branches set it again
MethodGroups_next(chain, i) ==
    LET subheading == chain[i]
    IN IF is_element(subheading, "h3") /\ has_class(subheading, "impl")
       THEN IF Sibling(chain, i + 1) # 0 THEN Sibling(chain, i + 2) ELSE 0
       ELSE IF is_element(subheading, "details") THEN Sibling(chain, i + 1)
       ELSE 0

\* next_sibling_element / previous_sibling_element: the loop stops at an
\* element and steps over every other node, d = 1 forwards, -1 backwards
Element_next(chain, i, d) ==
    IF chain[i].tag # "#text" THEN [cursor |-> i, done |-> TRUE]
    ELSE [cursor |-> Sibling(chain, i + d), done |-> FALSE]

WalkPool ==
    {TextNode, Docblock, SectionHeading,
     Node("span", "structfield", Some("structfield.a"), "code"),
     H3Impl(None),
     [Node("details", "implementors-toggle", None, "none")
        EXCEPT !.children = <<MethodHeading, Docblock>>]}

WalkChains == SeqsUpTo(WalkPool, MaxChildren)

\* the walks: those of the member lists start at the next sibling element
\* of the heading, those of a node at its next or previous sibling
WalkStarts(chain) ==
    {[op |-> op, cursor |-> Sibling(chain, next_sibling_element(chain, 1))] :
        op \in {"get_fields", "get_variants", "get_method_groups"}}
    \cup {[op |-> "next_sibling_element", cursor |-> Sibling(chain, self + 1)] :
            self \in 0..Len(chain)}
    \cup {[op |-> "previous_sibling_element", cursor |-> Sibling(chain, self - 1)] :
            self \in 1..(Len(chain) + 1)}

WalkInit ==
    /\ name = Name_from("")
    /\ nop = NoNameCall
    /\ file = NoFile
    /\ index = NoCrates
    /\ pc = "raw"
    /\ iret = NoCall
    /\ lines = <<>>
    /\ lineno = 0
    /\ json = None
    /\ finished = FALSE
    /\ lret = NoLoadCall
    /\ sret = NoScrapeCall
    /\ lcall = NoLinkCall
    /\ mcall = NoMainCall
    /\ view = NoView
    /\ \E chain \in WalkChains :
        /\ page = ItemPage("none", chain, Present)
        /\ \E start \in WalkStarts(chain) :
            walk = [NoWalk EXCEPT !.op = start.op, !.cursor = start.cursor]

\* one iteration of a loop that is running, at most one more than the chain
\* has nodes
Iterating(op) ==
    /\ walk.op = op
    /\ ~walk.done
    /\ walk.cursor # 0
    /\ Len(walk.visited) <= Len(page.chain)

Iterate(next) ==
    walk' = [walk EXCEPT !.cursor = next.cursor, !.done = next.done,
                         !.visited = Append(@, walk.cursor)]

FieldsIteration ==
    /\ Iterating("get_fields")
    /\ Iterate(Members_next(page.chain, walk.cursor,
            Fields_step(WalkStart, page.chain[walk.cursor], walk.cursor).stop))
    /\ UNCHANGED <<page, sret, exceptWalk>>

VariantsIteration ==
    /\ Iterating("get_variants")
    /\ Iterate(Members_next(page.chain, walk.cursor,
            Variants_step(WalkStart, page.chain[walk.cursor], walk.cursor).stop))
    /\ UNCHANGED <<page, sret, exceptWalk>>

MethodGroupsIteration ==
    /\ Iterating("get_method_groups")
    /\ Iterate([cursor |-> MethodGroups_next(page.chain, walk.cursor),
                done |-> FALSE])
    /\ UNCHANGED <<page, sret, exceptWalk>>

NextSiblingIteration ==
    /\ Iterating("next_sibling_element")
    /\ Iterate(Element_next(page.chain, walk.cursor, 1))
    /\ UNCHANGED <<page, sret, exceptWalk>>

PreviousSiblingIteration ==
    /\ Iterating("previous_sibling_element")
    /\ Iterate(Element_next(page.chain, walk.cursor, -1))
    /\ UNCHANGED <<page, sret, exceptWalk>>

\* `while let Some(..)` meets None: the loop is left
WalkEnd ==
    /\ walk.op # "none"
    /\ ~walk.done
    /\ walk.cursor = 0
    /\ walk' = [walk EXCEPT !.done = TRUE]
    /\ UNCHANGED <<page, sret, exceptWalk>>

WalkNext ==
    \/ FieldsIteration
    \/ VariantsIteration
    \/ MethodGroupsIteration
    \/ NextSiblingIteration
    \/ PreviousSiblingIteration
    \/ WalkEnd

WalkSpec == WalkInit /\ [][WalkNext]_vars

\* a loop that can make an iteration, or be left, eventually does
WalkLiveSpec == WalkSpec /\ WF_vars(WalkNext)

Forwards == walk.op # "previous_sibling_element"

\* the places visited are strictly ascending (descending for the walk
\* backwards), so no place is visited twice and there are at most as many
\* iterations as siblings
WalkBounded ==
    /\ \A i \in 1..Len(walk.visited) : \A j \in (i + 1)..Len(walk.visited) :
        IF Forwards THEN walk.visited[i] < walk.visited[j]
        ELSE walk.visited[i] > walk.visited[j]
    /\ Len(walk.visited) <= Len(page.chain)

\* an iteration ends the walk or moves the cursor to a strictly later
\* (strictly earlier) sibling
WalkAdvances ==
    \/ walk'.done
    \/ walk'.cursor = 0
    \/ IF Forwards THEN walk'.cursor > walk.cursor ELSE walk'.cursor < walk.cursor

\* C28: every sibling walk (get_fields, get_variants, get_method_groups,
\* next_sibling_element, previous_sibling_element) ends: each iteration ends
\* the walk or moves the cursor to a strictly later (earlier) sibling, no
\* node is visited twice, and there are at most as many iterations as
\* siblings.
C28_WalksTerminate ==
    /\ []WalkBounded
    /\ [][WalkAdvances]_vars
    /\ <>(walk.done)

\* get_method_groups went over an h3.impl, the node after it and a details
C28_Witness ==
    /\ walk.op = "get_method_groups"
    /\ walk.done
    /\ walk.visited = <<1, 3>>
    /\ Len(page.chain) = 3

(***************************************************************************)
(* The scan of Index::load, checked under LoadSpec.                        *)
(***************************************************************************)
\* the line without the backslashes it ends in
Stripped(line) ==
    LET n == CHOOSE n \in 0..Len(line) :
                /\ \A k \in (n + 1)..Len(line) : SubSeq(line, k, k) = "\\"
                /\ n > 0 => SubSeq(line, n, n) # "\\"
    IN SubSeq(line, 1, n)

RECURSIVE StrippedText(_, _, _)
StrippedText(ls, from, to) ==
    IF from > to THEN "" ELSE Stripped(ls[from]) \o StrippedText(ls, from + 1, to)

\* the start-marker lines and the end-marker lines after the first of them,
\* among the lines read so far
StartsRead == {i \in StartLines : i <= lineno}
EndsRead == {j \in EndLines : j <= lineno}

\* C29: the scan is in one of three states.  Before the first start-marker
\* line there is no payload; from it on the payload is "{" followed by the
\* text of every line read after it, trailing backslashes removed; the first
\* end-marker line after it adds "}" and ends the scan, so no later line is
\* read.  If the file ends in the collecting state, load returns Ok(None),
\* whatever the partial payload is.
C29_ThreeStateScan ==
    /\ StartsRead = {} => (~json.some /\ ~finished)
    /\ StartsRead # {} =>
        /\ json.some
        /\ finished <=> EndsRead # {}
        /\ ~finished =>
            json.val = "{" \o StrippedText(lines, MinOf(StartLines) + 1, lineno)
        /\ finished =>
            /\ lineno = MinOf(EndLines)
            /\ json.val = ("{" \o StrippedText(lines, MinOf(StartLines) + 1,
                                               lineno - 1)) \o "}"
    /\ (lret.op = "load" /\ StartLines # {} /\ EndLines = {}) =>
        /\ lineno = Len(lines)
        /\ IsOkNone(lret.ret)

\* a start marker and a line that is no JSON, the file ends: nothing is parsed
C29_Witness ==
    /\ lret.op = "load"
    /\ lines = <<StartMarker, BadLine>>
    /\ json.some
    /\ json.val = "{x"
    /\ IsOkNone(lret.ret)

(***************************************************************************)
(* viewer/tui/views.rs: HtmlView.  The document is what the renderer makes *)
(* of it at each width: doc[w] is the list of the rows (position.y) of the *)
(* links of the rendering at width w, in the order push_line met them.     *)
(* rendered is the width of the cached rendering, focus the focused link.  *)
(***************************************************************************)
MaxLinks == 3       \* links of one rendering
MaxWidth == 2       \* max_width of the view
Rows == {0, 1}

\* usize::MAX; only ever compared with the number of links
UsizeMax == 2147483647

Focus(i) == [some |-> TRUE, val |-> i]

\* the rows of the links of one rendering: lines are pushed top to bottom
Renderings ==
    {r \in SeqsUpTo(Rows, MaxLinks) : \A i \in 1..(Len(r) - 1) : r[i] <= r[i + 1]}

\* the links of the cached rendering
LinksOf(v) == v.doc[v.rendered.val]

\* HtmlView::update(constraint): links.len() - 1 on usize panics in a build
\* with overflow checks and wraps to usize::MAX in one without
update(v, x, overflow_checks) ==
    LET width == IF MaxWidth < x THEN MaxWidth ELSE x
        links == v.doc[width]
    IN IF v.rendered.some /\ v.rendered.val = width THEN v
       ELSE IF v.focus.some /\ v.focus.val >= Len(links)
       THEN IF Len(links) = 0
            THEN IF overflow_checks THEN [v EXCEPT !.pc = "panicked"]
                 ELSE [v EXCEPT !.rendered = Focus(width), !.focus = Focus(UsizeMax)]
            ELSE [v EXCEPT !.rendered = Focus(width),
                           !.focus = Focus(Len(links) - 1)]
       ELSE [v EXCEPT !.rendered = Focus(width)]

\* HtmlView::take_focus(direction)
take_focus(v, direction) ==
    LET link_count == IF v.rendered.some THEN Len(LinksOf(v)) ELSE 0
    IN IF link_count > 0
       THEN [v EXCEPT !.focus = IF direction \in {"Up", "Left", "None", "Front"}
                                 THEN Focus(0) ELSE Focus(link_count - 1),
                      !.ret = "true"]
       ELSE [v EXCEPT !.ret = "false"]

Ignored(v) == [v EXCEPT !.ret = "Ignored"]
Consumed(v, focus) == [v EXCEPT !.ret = "Consumed", !.focus = Focus(focus)]
IndexPanic(v) == [v EXCEPT !.pc = "panicked"]

\* HtmlView::on_event(event); links[i] panics for i out of range
on_event(v, key) ==
    IF ~v.rendered.some THEN Ignored(v)
    ELSE IF Len(LinksOf(v)) = 0 THEN Ignored(v)
    ELSE IF ~v.focus.some THEN Ignored(v)
    ELSE LET links == LinksOf(v)
             focus == v.focus.val
             y(i) == links[i + 1]
         IN CASE key = "Left" ->
                    IF focus = 0 THEN Ignored(v)
                    ELSE IF focus >= Len(links) THEN IndexPanic(v)
                    ELSE IF y(focus) = y(focus - 1) THEN Consumed(v, focus - 1)
                    ELSE Ignored(v)
              [] key = "Up" ->
                    IF focus >= Len(links) THEN IndexPanic(v)
                    ELSE LET above == {i \in 0..(focus - 1) : y(i) < y(focus)}
                         IN IF above # {} THEN Consumed(v, MaxOf(above))
                            ELSE Ignored(v)
              [] key = "Down" ->
                    IF focus >= Len(links) THEN IndexPanic(v)
                    ELSE LET below == {i \in focus..(Len(links) - 1) :
                                            y(i) > y(focus)}
                         IN IF below # {} THEN Consumed(v, MinOf(below))
                            ELSE Ignored(v)
              [] key = "Right" ->
                    IF focus >= Len(links) THEN IndexPanic(v)
                    ELSE IF focus + 1 >= Len(links) THEN Ignored(v)
                    ELSE IF y(focus) = y(focus + 1) THEN Consumed(v, focus + 1)
                    ELSE Ignored(v)
              [] key = "Enter" ->
                    IF focus >= Len(links) THEN IndexPanic(v)
                    ELSE [v EXCEPT !.ret = "Consumed"]
              [] OTHER -> Ignored(v)

\* HtmlView::important_area
important_area(v) ==
    IF v.focus.some /\ v.rendered.some
    THEN IF v.focus.val >= Len(LinksOf(v)) THEN IndexPanic(v)
         ELSE [v EXCEPT !.ret = "link"]
    ELSE [v EXCEPT !.ret = "origin"]

Directions == {"Up", "Left", "None", "Down", "Right", "Front", "Back"}
Keys == {"Left", "Up", "Down", "Right", "Enter", "Other"}
Constraints == 1..(MaxWidth + 1)

\* HtmlView::new: no rendering, no focus
ViewInit ==
    /\ name = Name_from("")
    /\ nop = NoNameCall
    /\ file = NoFile
    /\ index = NoCrates
    /\ pc = "raw"
    /\ iret = NoCall
    /\ lines = <<>>
    /\ lineno = 0
    /\ json = None
    /\ finished = FALSE
    /\ lret = NoLoadCall
    /\ page = NoPage
    /\ sret = NoScrapeCall
    /\ lcall = NoLinkCall
    /\ mcall = NoMainCall
    /\ walk = NoWalk
    /\ \E doc \in [1..MaxWidth -> Renderings] :
        view = [NoView EXCEPT !.doc = doc, !.pc = "ready", !.op = "new"]

Called(v, op, x, key) == [v EXCEPT !.op = op, !.x = x, !.key = key]

Layout(x) ==
    /\ view.pc = "ready"
    /\ \E overflow_checks \in BOOLEAN :
        view' = Called([update(view, x, overflow_checks) EXCEPT !.ret = ""],
                       "layout", x, "")
    /\ UNCHANGED exceptView

RequiredSize(x) ==
    /\ view.pc = "ready"
    /\ \E overflow_checks \in BOOLEAN :
        view' = Called([update(view, x, overflow_checks) EXCEPT !.ret = "size"],
                       "required_size", x, "")
    /\ UNCHANGED exceptView

TakeFocus(direction) ==
    /\ view.pc = "ready"
    /\ view' = Called(take_focus(view, direction), "take_focus", 0, direction)
    /\ UNCHANGED exceptView

OnEvent(key) ==
    /\ view.pc = "ready"
    /\ view' = Called(on_event(view, key), "on_event", 0, key)
    /\ UNCHANGED exceptView

ImportantArea ==
    /\ view.pc = "ready"
    /\ view' = Called(important_area(view), "important_area", 0, "")
    /\ UNCHANGED exceptView

ViewNext ==
    \/ \E x \in Constraints : Layout(x)
    \/ \E x \in Constraints : RequiredSize(x)
    \/ \E direction \in Directions : TakeFocus(direction)
    \/ \E key \in Keys : OnEvent(key)
    \/ ImportantArea

ViewSpec == ViewInit /\ [][ViewNext]_vars

\* no call panicked, and a focus points at a link of the cached rendering
FocusInRange ==
    /\ view.pc # "panicked"
    /\ (view.focus.some /\ view.rendered.some) =>
            view.focus.val < Len(LinksOf(view))

RowOf(v, i) == LinksOf(v)[i + 1]

\* a key event without rendering, link or focus is Ignored and leaves the
\* focus alone; Left / Right move to the adjacent link on the same row only,
\* Up / Down to a link on a strictly earlier / later row only
KeyEventRules ==
    (view'.op = "on_event" /\ view'.pc = "ready") =>
        /\ (~view.rendered.some \/ ~view.focus.some \/ Len(LinksOf(view)) = 0) =>
            (view'.ret = "Ignored" /\ view'.focus = view.focus)
        /\ view'.focus # view.focus =>
            /\ view.focus.some
            /\ view'.focus.some
            /\ view'.focus.val < Len(LinksOf(view))
            /\ CASE view'.key = "Left" ->
                        /\ view'.focus.val = view.focus.val - 1
                        /\ RowOf(view, view'.focus.val) = RowOf(view, view.focus.val)
                 [] view'.key = "Right" ->
                        /\ view'.focus.val = view.focus.val + 1
                        /\ RowOf(view, view'.focus.val) = RowOf(view, view.focus.val)
                 [] view'.key = "Up" ->
                        RowOf(view, view'.focus.val) < RowOf(view, view.focus.val)
                 [] view'.key = "Down" ->
                        RowOf(view, view'.focus.val) > RowOf(view, view.focus.val)
                 [] OTHER -> FALSE

\* C30: after any sequence of layout, required_size, take_focus and key
\* events, a focus Some(i) with a rendering has i below the number of links
\* of that rendering and no index computation underflowed or went out of
\* range; a key event without rendering, link or focus returns Ignored and
\* leaves the focus unchanged; Left / Right only move to the adjacent link on
\* the same row, Up / Down only to a link on a strictly earlier / later row.
C30_FocusValid ==
    /\ []FocusInRange
    /\ [][KeyEventRules]_vars

====
